---------------------------- MODULE Spec2Model ----------------------------
(***************************************************************************)
(* A model of the cpp-url library: the percent-encoder of                  *)
(* skyr/v1/percent_encoding/percent_encoded_char.hpp and the uri value     *)
(* type of src/uri.cpp (construction, copy, move, assignment, swap,        *)
(* normalize, resolve).                                                    *)
(*                                                                         *)
(* Bytes are integers 0..255 and strings are sequences of bytes.  A byte   *)
(* constant is written as its code with the character in a comment.        *)
(***************************************************************************)
EXTENDS Integers, Sequences, FiniteSets, TLC

VARIABLES
  byte,        \* percent-encoder: the raw byte handed to percent_encode_byte
  eset,        \* percent-encoder: the encode_set argument
  charSigned,  \* percent-encoder: whether plain char is signed in this build
  encoded,     \* percent-encoder: the percent_encoded_char returned (<<>> before the call)
  input,       \* the string a driver hands to uri::initialize
  objs,        \* the uri objects: slot -> uri value, or Dead for a slot holding no object
  sso,         \* whether std::string keeps these strings inside the object (small-string buffer)
  hist,        \* the last operation applied, with the objects as they were before it
  ops          \* number of operations applied so far

vars == <<byte, eset, charSigned, encoded, input, objs, sso, hist, ops>>

-----------------------------------------------------------------------------
(* Sequence helpers *)

RECURSIVE Flatten(_)
Flatten(ss) == IF ss = <<>> THEN <<>> ELSE Head(ss) \o Flatten(Tail(ss))

Slice(s, b, e) == [i \in 1..(e - b) |-> s[b + i]]    \* the half-open range [b, e) of s, offsets from 0

-----------------------------------------------------------------------------
(* percent_encoded_char.hpp *)

Bytes == 0..255

\* the value of a char holding the raw byte b: negative for b >= 0x80 when char is signed
CharValue(b, signed) == IF signed /\ b >= 128 THEN b - 256 ELSE b

\* static_cast<unsigned>(char): the value modulo 2^32.  Only bits 0..7 of the result
\* are used by the callers; the model carries its low 16 bits (2^16 divides 2^32).
ToUnsigned(c) == c % 65536

\* static_cast<char>(unsigned): the low eight bits, as a raw byte
ToByte(u) == u % 256

hex_to_letter_lower(c) ==
  IF c >= 0 /\ c < 10 THEN c + 48
  ELSE IF c >= 10 /\ c < 16 THEN c - 10 + 97
  ELSE c

hex_to_letter(c) ==
  IF c >= 0 /\ c < 10 THEN c + 48                 \* byte + '0'
  ELSE IF c >= 10 /\ c < 16 THEN c - 10 + 65      \* byte - '\x0a' + 'A'
  ELSE c

is_c0_control_byte_and_percent(c) == c <= 31 \/ c > 126 \/ c = 37

is_c0_control_byte(c) == c <= 31 \/ c > 126

is_fragment_byte_c0_only(c) == is_c0_control_byte(c)

is_fragment_byte(c) ==
  is_c0_control_byte(c) \/ c = 32 \/ c = 34 \/ c = 60 \/ c = 62 \/ c = 96

is_path_byte_no_brace(c) ==
  is_fragment_byte(c) \/ c = 35 \/ c = 63 \/ c = 123

is_path_byte(c) ==
  is_fragment_byte(c) \/ c = 35 \/ c = 63 \/ c = 123 \/ c = 125

is_userinfo_byte(c) ==
  is_path_byte(c) \/ c = 47 \/ c = 58 \/ c = 59 \/ c = 61 \/ c = 64
    \/ c = 91 \/ c = 92 \/ c = 93 \/ c = 94 \/ c = 124

encode_set == {"none", "c0_control", "fragment", "path", "userinfo"}

\* percent_encoded_char with the two hex letters in the other order
percent_encoded_char_low_first(c) ==
  << 37,
     ToByte(hex_to_letter(ToUnsigned(c) % 16)),
     ToByte(hex_to_letter((ToUnsigned(c) \div 16) % 16)) >>

\* percent_encoded_char(char byte): '%' and the two hex letters
percent_encoded_char(c) ==
  << 37,
     ToByte(hex_to_letter((ToUnsigned(c) \div 16) % 16)),
     ToByte(hex_to_letter(ToUnsigned(c) % 16)) >>

\* percent_encoded_char(char byte, no_encode): the byte itself
percent_encoded_char_no_encode(c) == << ToByte(ToUnsigned(c)) >>

\* percent_encode_byte(char, Pred), with the predicate already applied
percent_encode_byte_pred(c, inSet) ==
  IF inSet THEN percent_encoded_char(c) ELSE percent_encoded_char_no_encode(c)

\* percent_encode_byte where encode_set::none leaves the byte as it is
percent_encode_byte_none_raw(c, excludes) ==
  CASE excludes = "none"       -> percent_encoded_char_no_encode(c)
    [] excludes = "c0_control" -> percent_encode_byte_pred(c, is_c0_control_byte(c))
    [] excludes = "userinfo"   -> percent_encode_byte_pred(c, is_userinfo_byte(c))
    [] excludes = "path"       -> percent_encode_byte_pred(c, is_path_byte(c))
    [] excludes = "fragment"   -> percent_encode_byte_pred(c, is_fragment_byte(c))
    [] OTHER                   -> percent_encoded_char(c)

\* percent_encode_byte(char byte, encode_set excludes)
percent_encode_byte(c, excludes) ==
  CASE excludes = "none"       -> percent_encoded_char(c)
    [] excludes = "c0_control" -> percent_encode_byte_pred(c, is_c0_control_byte(c))
    [] excludes = "userinfo"   -> percent_encode_byte_pred(c, is_userinfo_byte(c))
    [] excludes = "path"       -> percent_encode_byte_pred(c, is_path_byte(c))
    [] excludes = "fragment"   -> percent_encode_byte_pred(c, is_fragment_byte(c))
    [] OTHER                   -> percent_encoded_char(c)

-----------------------------------------------------------------------------
(* The uri value: its string, its view of the string, and its parts.       *)
(* A range is a pair of pointers; it is modelled as the object whose       *)
(* string storage it points into and two offsets from the start of that    *)
(* storage.                                                                *)

Comps == <<"scheme", "user_info", "host", "port", "path", "query", "fragment">>
CompSet == {Comps[i] : i \in 1..Len(Comps)}

\* the named uri objects, and the temporary an assignment passes by value
Slots == {"a", "b", "c"}
Temp == "tmp"
Store == Slots \cup {Temp}
Dead == [live |-> FALSE]

NoRange == [has |-> FALSE, obj |-> "", first |-> 0, last |-> 0]
Range(o, f, l) == [has |-> TRUE, obj |-> o, first |-> f, last |-> l]
RangeLen(r) == r.last - r.first

\* detail::uri_parts{}: every part absent
uri_parts == [c \in CompSet |-> NoRange]

\* uri::uri(): an empty string, a view of it, no parts
uri_default(self) ==
  [live |-> TRUE, uri_ |-> <<>>, view |-> [obj |-> self, len |-> 0], parts |-> uri_parts]

-----------------------------------------------------------------------------
(* Parsing a string into parts.  detail::trim_copy and detail::parse are   *)
(* called by uri::initialize but defined outside the files at hand; they   *)
(* follow the written specification: the pre-processing of section 4.3,    *)
(* the serialized form of section 6 and the fatal conditions of section 7. *)
(* parse leaves its input untouched and reports each component as a range  *)
(* of it, so an input that would need re-encoding is rejected.             *)

IsAlpha(c) == (c >= 65 /\ c <= 90) \/ (c >= 97 /\ c <= 122)
IsDigit(c) == c >= 48 /\ c <= 57
IsHexDigit(c) == IsDigit(c) \/ (c >= 65 /\ c <= 70) \/ (c >= 97 /\ c <= 102)
IsSchemeChar(c) == IsAlpha(c) \/ IsDigit(c) \/ c = 43 \/ c = 45 \/ c = 46   \* + - .
IsTrimmed(c) == c \in {9, 10, 13, 32}
IsTabOrNewline(c) == c \in {9, 10, 13}

RECURSIVE DropLeading(_)
DropLeading(s) ==
  IF s # <<>> /\ IsTrimmed(Head(s)) THEN DropLeading(Tail(s)) ELSE s

RECURSIVE DropTrailing(_)
DropTrailing(s) ==
  IF s # <<>> /\ IsTrimmed(s[Len(s)]) THEN DropTrailing(SubSeq(s, 1, Len(s) - 1)) ELSE s

\* strip leading and trailing {0x09, 0x0A, 0x0D, 0x20}, then every interior 0x09, 0x0A, 0x0D
trim_copy(s) ==
  SelectSeq(DropTrailing(DropLeading(s)), LAMBDA c : ~IsTabOrNewline(c))

\* the least index i in from..Len(s) with s[i] in stop, or Len(s) + 1
RECURSIVE FindFirst(_, _, _)
FindFirst(s, from, stop) ==
  IF from > Len(s) THEN Len(s) + 1
  ELSE IF s[from] \in stop THEN from
  ELSE FindFirst(s, from + 1, stop)

\* the greatest index i in from..(to - 1) with s[i] = c, or 0
RECURSIVE FindLast(_, _, _, _)
FindLast(s, from, to, c) ==
  IF to <= from THEN 0
  ELSE IF s[to - 1] = c THEN to - 1
  ELSE FindLast(s, from, to - 1, c)

\* the least index i in from..Len(s) at which s[i] is not a scheme byte, or Len(s) + 1
RECURSIVE SchemeEnd(_, _)
SchemeEnd(s, from) ==
  IF from > Len(s) THEN Len(s) + 1
  ELSE IF ~IsSchemeChar(s[from]) THEN from
  ELSE SchemeEnd(s, from + 1)

SpecialSchemes ==
  { <<102, 116, 112>>,            \* ftp
    <<102, 105, 108, 101>>,       \* file
    <<104, 116, 116, 112>>,       \* http
    <<104, 116, 116, 112, 115>>,  \* https
    <<119, 115>>,                 \* ws
    <<119, 115, 115>> }           \* wss

FileScheme == <<102, 105, 108, 101>>

ParseFailure == [valid |-> FALSE, parts |-> uri_parts]

\* path, query and fragment: the path runs from index pathStart to '?' or '#', the
\* query from '?' to '#', the fragment from '#' to the end
ParseQueryFragment(s, o, parts, pEnd, qEnd) ==
  [ valid |-> TRUE,
    parts |->
      [parts EXCEPT
         !["query"] = IF pEnd < qEnd THEN Range(o, pEnd, qEnd - 1) ELSE NoRange,
         !["fragment"] = IF qEnd <= Len(s) THEN Range(o, qEnd, Len(s)) ELSE NoRange] ]

ParsePath(s, o, parts, pathStart, pEnd) ==
  ParseQueryFragment(s, o, [parts EXCEPT !["path"] = Range(o, pathStart - 1, pEnd - 1)],
                     pEnd,
                     IF pEnd <= Len(s) /\ s[pEnd] = 63
                     THEN FindFirst(s, pEnd + 1, {35}) ELSE pEnd)

\* host and port of the authority s[hStart..aEnd-1]; pcolon is the index of its first
\* ':' (aEnd when it has none)
ParseHostPort(s, o, parts, hasUserInfo, hStart, pcolon, aEnd) ==
  IF \/ \E i \in (pcolon + 1)..(aEnd - 1) : ~IsDigit(s[i])       \* port is non-numeric
     \/ (hasUserInfo /\ pcolon = hStart)                          \* credentials, empty host
     \/ (pcolon = hStart                                          \* special, empty host
           /\ Slice(s, parts["scheme"].first, parts["scheme"].last)
                 \in SpecialSchemes \ {FileScheme})
  THEN ParseFailure
  ELSE ParsePath(s, o,
                 [parts EXCEPT
                    !["host"] = Range(o, hStart - 1, pcolon - 1),
                    !["port"] = IF pcolon < aEnd THEN Range(o, pcolon, aEnd - 1) ELSE NoRange],
                 aEnd, FindFirst(s, aEnd, {63, 35}))

\* the authority s[aStart..aEnd-1]; at is the index of its last '@' (0 when it has none)
ParseAuthority(s, o, parts, aStart, aEnd, at) ==
  IF at > 0
  THEN ParseHostPort(s, o, [parts EXCEPT !["user_info"] = Range(o, aStart - 1, at - 1)],
                     TRUE, at + 1, FindFirst(SubSeq(s, 1, aEnd - 1), at + 1, {58}), aEnd)
  ELSE ParseHostPort(s, o, parts,
                     FALSE, aStart, FindFirst(SubSeq(s, 1, aEnd - 1), aStart, {58}), aEnd)

\* what follows the scheme, from index p on: "//" authority, or a path
ParseAfterScheme(s, o, parts, p, aEnd) ==
  IF p + 1 <= Len(s) /\ s[p] = 47 /\ s[p + 1] = 47
  THEN ParseAuthority(s, o, parts, p + 2, aEnd, FindLast(s, p + 2, aEnd, 64))
  ELSE ParsePath(s, o, parts, p, FindFirst(s, p, {63, 35}))

\* the scheme ends at the ':' at index colon
ParseScheme(s, o, colon) ==
  IF colon > Len(s) \/ s[colon] # 58
  THEN ParseFailure                            \* no_scheme without a base
  ELSE ParseAfterScheme(s, o, [uri_parts EXCEPT !["scheme"] = Range(o, 0, colon - 1)],
                        colon + 1, FindFirst(s, colon + 3, {47, 63, 35}))

\* the parts of the string s as ranges anchored in the storage of object o
parse(s, o) ==
  IF s = <<>> \/ ~IsAlpha(s[1]) \/ (\E i \in 1..Len(s) : s[i] <= 32 \/ s[i] >= 127)
  THEN ParseFailure                            \* not a scheme, or a byte to re-encode
  ELSE ParseScheme(s, o, SchemeEnd(s, 1))

\* the uri object holding the string u with the parts r found in it
Initialized(u, r, self) ==
  [ valid |-> r.valid,
    uri |-> [live |-> TRUE, uri_ |-> u, view |-> [obj |-> self, len |-> Len(u)],
             parts |-> r.parts] ]

\* an empty string is accepted without parsing
ParseNonEmpty(u, self) ==
  IF u # <<>> THEN parse(u, self) ELSE [valid |-> TRUE, parts |-> uri_parts]

\* uri::initialize(const string_type &): the object a constructor leaves in slot self,
\* and whether the string was valid
uri_initialize_drop_first(str, self) ==
  Initialized(IF str = <<>> THEN <<>> ELSE Tail(str),
              ParseNonEmpty(IF str = <<>> THEN <<>> ELSE Tail(str), self), self)

uri_initialize(str, self) ==
  Initialized(trim_copy(str), ParseNonEmpty(trim_copy(str), self), self)

-----------------------------------------------------------------------------
(* Accessors *)

\* the bytes of the string storage of object o (nothing when o holds no object)
Mem(os, o) == IF o \in Store /\ os[o].live THEN os[o].uri_ ELSE <<>>
MemLive(os, o) == o \in Store /\ os[o].live

\* an indeterminate byte: what a read outside the storage yields
Indeterminate == -1

\* the byte at offset off of a string; the terminator at its end; otherwise indeterminate
ByteAt(m, off) ==
  IF off >= 0 /\ off < Len(m) THEN m[off + 1]
  ELSE IF off = Len(m) THEN 0
  ELSE Indeterminate

\* to_string_view(uri_, part): the bytes the pointer pair spans, empty when first = second
to_string_view(os, r) ==
  IF r.first # r.last
  THEN [i \in 1..(r.last - r.first) |->
          IF MemLive(os, r.obj) THEN ByteAt(Mem(os, r.obj), r.first + i - 1) ELSE Indeterminate]
  ELSE <<>>

\* has_scheme() ... has_fragment()
Has(u, c) == u.parts[c].has

\* scheme() ... fragment(): the text when present, an empty view otherwise
Text(os, u, c) == IF Has(u, c) THEN to_string_view(os, u.parts[c]) ELSE <<>>

\* has_authority(), is_absolute(), is_opaque(), empty()
has_authority(u) == Has(u, "host")
is_absolute(u) == Has(u, "scheme")
is_opaque(u) == is_absolute(u) /\ ~has_authority(u)
empty(u) == u.uri_ = <<>>

-----------------------------------------------------------------------------
(* What the claims compare *)

\* two uri values agree: the same string and, per component, the same presence and text
SameUri(os1, u1, os2, u2) ==
  /\ u1.uri_ = u2.uri_
  /\ \A c \in CompSet : Has(u1, c) = Has(u2, c) /\ Text(os1, u1, c) = Text(os2, u2, c)

\* every present part of the object in slot self is a range of its own string
InOwnString(u, self) ==
  \A c \in CompSet :
    Has(u, c) => /\ u.parts[c].obj = self
                 /\ 0 <= u.parts[c].first
                 /\ u.parts[c].first <= u.parts[c].last
                 /\ u.parts[c].last <= Len(u.uri_)

-----------------------------------------------------------------------------
(* Operations on the objects *)

NoHist == [op |-> "none", dst |-> "", src |-> "", base |-> "", pre |-> <<>>]
Did(op, dst, src) == [op |-> op, dst |-> dst, src |-> src, base |-> "", pre |-> objs]

AllDead == [o \in Store |-> Dead]

\* uri(const Source &): construct the object in slot o from the string s;
\* an invalid string throws uri_syntax_error and no object is constructed
ConstructFromString(o, s) ==
  /\ ~objs[o].live
  /\ LET r == uri_initialize(s, o)
     IN IF r.valid
        THEN /\ objs' = [objs EXCEPT ![o] = r.uri]
             /\ hist' = Did("construct", o, "")
        ELSE /\ objs' = objs
             /\ hist' = Did("throw", o, "")

-----------------------------------------------------------------------------
(* The percent-encoder applied to one byte *)

EncodeInit ==
  /\ byte \in Bytes
  /\ eset \in encode_set
  /\ charSigned \in BOOLEAN
  /\ encoded = <<>>
  /\ input = <<>>
  /\ objs = AllDead
  /\ sso = FALSE
  /\ hist = NoHist
  /\ ops = 0

PercentEncodeByte ==
  /\ encoded = <<>>
  /\ encoded' = percent_encode_byte(CharValue(byte, charSigned), eset)
  /\ UNCHANGED <<byte, eset, charSigned, input, objs, sso, hist, ops>>

EncodeNext == PercentEncodeByte

EncodeSpec == EncodeInit /\ [][EncodeNext]_vars

-----------------------------------------------------------------------------
(* A string parsed, and the resulting uri's string parsed again *)

MaxInputLen == 4

\* space, tab, '1', ':', '/', '?', '#', '@', 'a'
InputAlphabet == {32, 9, 49, 58, 47, 63, 35, 64, 97}

ShortInputs == UNION { [1..n -> InputAlphabet] : n \in 0..MaxInputLen }

Opt(parts) == parts \cup {<<>>}

\* strings assembled as [ws] scheme ":" ["//" [user "@"] host [":" port]] path ["?" q] ["#" f] [ws]
ComposedInputs ==
  { Flatten(<<w1, <<97, 58>>, auth, path, q, f, w2>>) :
      w1 \in {<<>>, <<32>>, <<9, 32>>},
      auth \in { <<>> } \cup
               { Flatten(<<<<47, 47>>, ui, h, pt>>) :
                   ui \in Opt({<<97, 64>>}),
                   h \in {<<>>, <<97>>, <<65, 46, 97>>},
                   pt \in Opt({<<58>>, <<58, 49>>, <<58, 97>>}) },
      path \in {<<>>, <<47>>, <<47, 97>>, <<97, 9, 47>>},
      q \in Opt({<<63>>, <<63, 97>>}),
      f \in Opt({<<35>>, <<35, 63>>}),
      w2 \in {<<>>, <<32>>} }

InputStrings == ShortInputs \cup ComposedInputs

ParseInit ==
  /\ input \in InputStrings
  /\ byte = 0
  /\ eset = "none"
  /\ charSigned = FALSE
  /\ encoded = <<>>
  /\ objs = AllDead
  /\ sso = FALSE
  /\ hist = NoHist
  /\ ops = 0

\* U = uri(s)
FirstParse ==
  /\ hist.op = "none"
  /\ ConstructFromString("a", input)
  /\ UNCHANGED <<byte, eset, charSigned, encoded, input, sso, ops>>

\* uri(U.string())
Reparse ==
  /\ objs["a"].live
  /\ hist.dst = "a"
  /\ ConstructFromString("b", objs["a"].uri_)
  /\ UNCHANGED <<byte, eset, charSigned, encoded, input, sso, ops>>

ParseNext == FirstParse \/ Reparse

ParseSpec == ParseInit /\ [][ParseNext]_vars

-----------------------------------------------------------------------------
(* Claims about the percent-encoder *)

\* the encode sets as the specification defines them, over unsigned bytes
SpecC0Control == {b \in Bytes : b <= 31 \/ b > 126}
SpecFragment == SpecC0Control \cup {32, 34, 60, 62, 96}
SpecPath == SpecFragment \cup {35, 63, 123, 125}
SpecUserinfo == SpecPath \cup {47, 58, 59, 61, 64, 91, 92, 93, 94, 124}

SpecSet(s) ==
  CASE s = "c0_control" -> SpecC0Control
    [] s = "fragment"   -> SpecFragment
    [] s = "path"       -> SpecPath
    [] s = "userinfo"   -> SpecUserinfo
    [] OTHER            -> Bytes

\* C1: for every byte and each of the sets c0_control, fragment, path, userinfo,
\* percent_encode_byte returns the three-byte form exactly when the byte is in the
\* set as the specification defines it, and otherwise the one-byte form holding
\* the byte itself.
C1_EncodesExactlyTheSet ==
  (encoded # <<>> /\ eset # "none") =>
     /\ (Len(encoded) = 3) <=> (byte \in SpecSet(eset))
     /\ (byte \notin SpecSet(eset)) => encoded = <<byte>>

\* C1 witness: a byte of 0x80 or more, negative as a signed char, encoded under path,
C1_Witness ==
  /\ encoded # <<>> /\ eset = "path" /\ charSigned /\ byte = 200 /\ Len(encoded) = 3

HexDigit(n) == IF n < 10 THEN 48 + n ELSE 55 + n    \* '0'..'9', 'A'..'F'

\* C2: the three-byte form of every byte b is '%', then the uppercase hex digit of
\* b's high nibble, then the uppercase hex digit of b's low nibble.
C2_UppercaseHex ==
  (encoded # <<>> /\ Len(encoded) = 3) =>
     encoded = <<37, HexDigit((byte \div 16) % 16), HexDigit(byte % 16)>>

\* C2 witness: 0xAF under c0_control with a signed char gives "%AF"
C2_Witness ==
  /\ encoded = <<37, 65, 70>> /\ byte = 175 /\ eset = "c0_control" /\ charSigned

-----------------------------------------------------------------------------
(* Claims about parsing *)

-----------------------------------------------------------------------------
(* Re-anchoring the parts on another string: advance_parts and copy_range  *)

\* An indeterminate byte is one of these when the code compares it with ':' or '/';
\* one operation reads the same one wherever it reads such a byte
OracleBytes == {0, 47, 58}

\* *it for an iterator at offset off of the view [vobj, m]: a byte of the string, the
\* terminator at its end, and past that memory the string does not own.  live tells
\* whether the storage still exists.  Of the bytes not owned, the first reads as orc
\* and the others as 0.
Deref(m, live, off, orc) ==
  LET n == IF live THEN Len(m) ELSE -1
  IN IF off < 0 THEN 0
     ELSE IF off < n THEN m[off + 1]
     ELSE IF off = n THEN 0
     ELSE IF off = n + 1 THEN orc
     ELSE 0

\* while ('/' == *it) ++it;
RECURSIVE SkipSlashes(_, _, _, _)
SkipSlashes(m, live, it, orc) ==
  IF Deref(m, live, it, orc) = 47 THEN SkipSlashes(m, live, it + 1, orc) ELSE it

\* the ++it that skips the delimiter in front of a part: ':' of the port, '?', '#'
SkipBefore(c) == IF c \in {"port", "query", "fragment"} THEN 1 ELSE 0

\* the iterator after the part c that ends at offset e: past ':' and, for a uri with
\* a host, every '/' after the scheme; past '@' after the user_info
AfterPart(c, e, hasHost, m, live, orc) ==
  IF c = "scheme"
  THEN IF hasHost
       THEN SkipSlashes(m, live, IF Deref(m, live, e, orc) = 58 THEN e + 1 ELSE e, orc)
       ELSE IF Deref(m, live, e, orc) = 58 THEN e + 1 ELSE e
  ELSE IF c = "user_info" THEN e + 1
  ELSE e

\* the body of advance_parts from the k-th part on, the iterator being at offset it
RECURSIVE AdvanceFrom(_, _, _, _, _, _, _, _)
AdvanceFrom(k, it, vobj, m, live, parts, existing, orc) ==
  IF k > Len(Comps) THEN parts
  ELSE IF ~existing[Comps[k]].has
  THEN AdvanceFrom(k + 1, it, vobj, m, live, parts, existing, orc)
  ELSE AdvanceFrom(
         k + 1,
         AfterPart(Comps[k], it + SkipBefore(Comps[k]) + RangeLen(existing[Comps[k]]),
                   existing["host"].has, m, live, orc),
         vobj, m, live,
         [parts EXCEPT ![Comps[k]] =                      \* copy_range(*part, it)
            Range(vobj, it + SkipBefore(Comps[k]),
                  it + SkipBefore(Comps[k]) + RangeLen(existing[Comps[k]]))],
         existing, orc)

\* advance_parts(range, parts, existing_parts): range is the view of the storage of
\* vobj, holding m
advance_parts(vobj, m, live, parts, existing, orc) ==
  AdvanceFrom(1, 0, vobj, m, live, parts, existing, orc)

-----------------------------------------------------------------------------
(* Assembling a uri from optional parts: uri::initialize(optional...) as   *)
(* called by uri(const uri_builder &) and by resolve.                      *)

\* an optional<string_type>
Nothing == [has |-> FALSE, str |-> <<>>]
Just(s) == [has |-> TRUE, str |-> s]

\* if the URI is hierarchical and the path is not already prefixed with a '/', add one
PrefixedPath(b) ==
  IF b["path"].has /\ b["host"].has /\ b["path"].str # <<>> /\ b["path"].str[1] # 47
  THEN [b EXCEPT !["path"] = Just(<<47>> \o b["path"].str)]
  ELSE b

IsHier(b) == b["user_info"].has \/ b["host"].has \/ b["port"].has

\* the string initialize appends piece by piece to uri_
AssembledString(b) ==
  Flatten(<<
    IF b["scheme"].has THEN b["scheme"].str ELSE <<>>,
    IF IsHier(b) /\ b["scheme"].has THEN <<58, 47, 47>> ELSE <<>>,
    IF IsHier(b) /\ b["user_info"].has THEN b["user_info"].str \o <<64>> ELSE <<>>,
    IF IsHier(b) THEN b["host"].str ELSE <<>>,
    IF IsHier(b) /\ b["port"].has THEN <<58>> \o b["port"].str ELSE <<>>,
    IF ~IsHier(b) /\ b["scheme"].has THEN <<58>> ELSE <<>>,
    IF b["path"].has THEN b["path"].str ELSE <<>>,
    IF b["query"].has THEN <<63>> \o b["query"].str ELSE <<>>,
    IF b["fragment"].has THEN <<35>> \o b["fragment"].str ELSE <<>> >>)

\* after the scheme: ignore : and ://
AfterScheme(str, e) ==
  IF Deref(str, TRUE, e, 0) = 58
  THEN (IF Deref(str, TRUE, e + 1, 0) = 47
        THEN (IF Deref(str, TRUE, e + 2, 0) = 47 THEN e + 3 ELSE e + 2)
        ELSE e + 1)
  ELSE (IF Deref(str, TRUE, e, 0) = 47
        THEN (IF Deref(str, TRUE, e + 1, 0) = 47 THEN e + 2 ELSE e + 1)
        ELSE e)

\* the ranges initialize computes from the k-th part on, the iterator being at offset it
RECURSIVE InitializeFrom(_, _, _, _, _, _)
InitializeFrom(k, it, self, str, b, parts) ==
  IF k > Len(Comps) THEN parts
  ELSE IF ~b[Comps[k]].has THEN InitializeFrom(k + 1, it, self, str, b, parts)
  ELSE InitializeFrom(
         k + 1,
         IF Comps[k] = "scheme"
           THEN AfterScheme(str, it + Len(b[Comps[k]].str))
           ELSE IF Comps[k] = "user_info"
           THEN it + Len(b[Comps[k]].str) + 1                            \* ignore @
           ELSE it + SkipBefore(Comps[k]) + Len(b[Comps[k]].str),
         self, str, b,
         [parts EXCEPT ![Comps[k]] =                      \* copy_range(*part, it)
            Range(self, it + SkipBefore(Comps[k]),
                  it + SkipBefore(Comps[k]) + Len(b[Comps[k]].str))])

\* the cases in which initialize throws uri_builder_error
InitializeThrows(b) ==
  \/ (IsHier(b) /\ ~b["host"].has)
  \/ (~IsHier(b) /\ b["scheme"].has
        /\ ~(b["path"].has \/ b["query"].has \/ b["fragment"].has))

\* the object built in slot self from the optional strings b[c], or a throw of
\* uri_builder_error
uri_initialize_parts(b, self) ==
  [ throws |-> InitializeThrows(b),
    uri |->
      [ live |-> TRUE,
        uri_ |-> AssembledString(PrefixedPath(b)),
        view |-> [obj |-> self, len |-> Len(AssembledString(PrefixedPath(b)))],
        parts |-> InitializeFrom(1, 0, self, AssembledString(PrefixedPath(b)),
                                 PrefixedPath(b), uri_parts) ] ]

-----------------------------------------------------------------------------
(* String algorithms used by normalize and resolve.  They are declared in  *)
(* detail/uri_normalize.hpp, detail/uri_resolve.hpp and                    *)
(* detail/algorithm.hpp, outside the files at hand, and follow sections    *)
(* 4.1, 4.4 and 4.5 of the written specification.                          *)

ToLower(c) == IF c >= 65 /\ c <= 90 THEN c + 32 ELSE c
ToUpper(c) == IF c >= 97 /\ c <= 122 THEN c - 32 ELSE c
HexValue(c) == IF IsDigit(c) THEN c - 48 ELSE ToUpper(c) - 55

\* ASCII alpha, digit, '-', '.', '_', '~'
IsUnreserved(c) == IsAlpha(c) \/ IsDigit(c) \/ c \in {45, 46, 95, 126}

\* s[i..i+2] is a percent triple
IsTripleAt(s, i) ==
  i + 2 <= Len(s) /\ s[i] = 37 /\ IsHexDigit(s[i + 1]) /\ IsHexDigit(s[i + 2])

\* detail::percent_encoded_to_upper over the whole string: the hex digits of every
\* percent triple in upper case
percent_encoded_to_upper(s) ==
  [i \in 1..Len(s) |->
     IF (i >= 2 /\ IsTripleAt(s, i - 1)) \/ (i >= 3 /\ IsTripleAt(s, i - 2))
     THEN ToUpper(s[i]) ELSE s[i]]

\* detail::decode_encoded_unreserved_chars with the erase of the tail: left to right,
\* every percent triple that encodes an unreserved byte replaced by that byte
RECURSIVE decode_encoded_unreserved_chars(_)
decode_encoded_unreserved_chars(s) ==
  IF s = <<>> THEN <<>>
  ELSE IF IsTripleAt(s, 1) /\ IsUnreserved(16 * HexValue(s[2]) + HexValue(s[3]))
  THEN <<16 * HexValue(s[2]) + HexValue(s[3])>>
         \o decode_encoded_unreserved_chars(SubSeq(s, 4, Len(s)))
  ELSE <<Head(s)>> \o decode_encoded_unreserved_chars(Tail(s))

StartsWith(s, p) == Len(s) >= Len(p) /\ SubSeq(s, 1, Len(p)) = p
Drop(s, n) == SubSeq(s, n + 1, Len(s))

\* out without its last segment and the '/' before it
RemoveLastSegment(out) ==
  LET k == FindLast(out, 1, Len(out) + 1, 47)
  IN IF k = 0 THEN <<>> ELSE SubSeq(out, 1, k - 1)

\* the first segment of inp: its initial '/' if any and the bytes up to the next '/'
FirstSegmentLen(inp) ==
  FindFirst(inp, IF inp[1] = 47 THEN 2 ELSE 1, {47}) - 1

\* dot-segment removal: '.' segments dropped, '..' segments pop the segment before
\* them (nothing at the root)
RECURSIVE RemoveDots(_, _)
RemoveDots(inp, out) ==
  IF inp = <<>> THEN out
  ELSE IF StartsWith(inp, <<46, 46, 47>>) THEN RemoveDots(Drop(inp, 3), out)
  ELSE IF StartsWith(inp, <<46, 47>>) THEN RemoveDots(Drop(inp, 2), out)
  ELSE IF StartsWith(inp, <<47, 46, 47>>) THEN RemoveDots(Drop(inp, 2), out)
  ELSE IF inp = <<47, 46>> THEN RemoveDots(<<47>>, out)
  ELSE IF StartsWith(inp, <<47, 46, 46, 47>>) THEN RemoveDots(Drop(inp, 3), RemoveLastSegment(out))
  ELSE IF inp = <<47, 46, 46>> THEN RemoveDots(<<47>>, RemoveLastSegment(out))
  ELSE IF inp = <<46>> \/ inp = <<46, 46>> THEN out
  ELSE RemoveDots(Drop(inp, FirstSegmentLen(inp)),
                  out \o SubSeq(inp, 1, FirstSegmentLen(inp)))

\* detail::remove_dot_segments
remove_dot_segments(path) == RemoveDots(path, <<>>)

\* detail::normalize_path_segments
normalize_path_segments(path) == RemoveDots(path, <<>>)

\* detail::merge_paths(base, reference): the last segment of the base's path replaced
\* by the reference's path, dot-segments then removed
merge_paths(baseHasAuthority, basePath, refPath) ==
  LET k == FindLast(basePath, 1, Len(basePath) + 1, 47)
      merged == IF baseHasAuthority /\ basePath = <<>> THEN <<47>> \o refPath
                ELSE SubSeq(basePath, 1, k) \o refPath
  IN remove_dot_segments(merged)

-----------------------------------------------------------------------------
(* Copy, move, swap, assignment *)

MaxOps == 3

\* std::string::swap of two heap-allocated strings exchanges the buffers: a pointer
\* into the buffer x owned now points into storage owned by y, and the reverse
Ren(o, x, y) == IF o = x THEN y ELSE IF o = y THEN x ELSE o
RenRange(r, x, y) == [r EXCEPT !.obj = Ren(r.obj, x, y)]
RenUri(u, x, y) ==
  IF u.live
  THEN [u EXCEPT !.view = [u.view EXCEPT !.obj = Ren(u.view.obj, x, y)],
                 !.parts = [c \in CompSet |-> RenRange(u.parts[c], x, y)]]
  ELSE u

\* std::move of a heap-allocated string hands the buffer of x to y
Moved(o, x, y) == IF o = x THEN y ELSE o
MovedUri(u, x, y) ==
  IF u.live
  THEN [u EXCEPT !.view = [u.view EXCEPT !.obj = Moved(u.view.obj, x, y)],
                 !.parts = [c \in CompSet |->
                              [u.parts[c] EXCEPT !.obj = Moved(u.parts[c].obj, x, y)]]]
  ELSE u

\* uri::uri(const uri &other), constructing slot dst
uri_copy(os, dst, src, orc) ==
  [os EXCEPT ![dst] =
     [ live |-> TRUE, uri_ |-> os[src].uri_,
       view |-> [obj |-> dst, len |-> Len(os[src].uri_)],
       parts |-> advance_parts(dst, os[src].uri_, TRUE, uri_parts, os[src].parts, orc) ]]

\* uri::uri(uri &&other), constructing slot dst: the parts object is taken over and
\* re-anchored on itself, the other is left as a default-constructed uri
uri_move(os, dst, src, orc, small) ==
  LET os1 == IF small THEN os
             ELSE [o \in Store |-> IF o = src THEN os[o] ELSE MovedUri(os[o], src, dst)]
  IN [os1 EXCEPT
        ![dst] = [ live |-> TRUE, uri_ |-> os[src].uri_,
                   view |-> [obj |-> dst, len |-> Len(os[src].uri_)],
                   parts |-> advance_parts(dst, os[src].uri_, TRUE,
                                           os[src].parts, os[src].parts, orc) ],
        ![src] = uri_default(src)]

\* advance_parts(viewOf.uri_view_, *target.uri_parts_, *from.uri_parts_)
Reanchor(os, target, from, viewOf, orc) ==
  [os EXCEPT ![target] =
     [os[target] EXCEPT !.parts =
        advance_parts(os[viewOf].view.obj, Mem(os, os[viewOf].view.obj),
                      MemLive(os, os[viewOf].view.obj),
                      os[target].parts, os[from].parts, orc)]]

\* uri_.swap(other.uri_)
SwapStrings(os, this, other, small) ==
  IF small
  THEN [os EXCEPT ![this] = [os[this] EXCEPT !.uri_ = os[other].uri_],
                  ![other] = [os[other] EXCEPT !.uri_ = os[this].uri_]]
  ELSE [o \in Store |->
          RenUri(IF o = this THEN [os[this] EXCEPT !.uri_ = os[other].uri_]
                 ELSE IF o = other THEN [os[other] EXCEPT !.uri_ = os[this].uri_]
                 ELSE os[o],
                 this, other)]

\* uri_view_.swap(other.uri_view_)
SwapViews(os, this, other) ==
  [os EXCEPT ![this] = [os[this] EXCEPT !.view = os[other].view],
             ![other] = [os[other] EXCEPT !.view = os[this].view]]

\* uri::swap(uri &other), called on slot this
uri_swap(os, this, other, orc, small) ==
  Reanchor(
    SwapViews(
      SwapStrings(
        Reanchor(os, this, other, other, orc),
        this, other, small),
      this, other),
    other, this, other, orc)

\* uri::operator=(uri other) with a copied argument: other is a copy of src in a
\* temporary, swapped with *this and destroyed on return
uri_assign(os, dst, src, orc, small) ==
  LET os1 == uri_copy(os, Temp, src, orc)
      os2 == uri_swap(os1, Temp, dst, orc, small)
  IN [os2 EXCEPT ![Temp] = Dead]

\* one more operation applied, up to MaxOps of them
Count ==
  /\ ops < MaxOps
  /\ ops' = ops + 1
  /\ UNCHANGED <<byte, eset, charSigned, encoded, input, sso>>

Step(op, dst, src) ==
  /\ Count
  /\ hist' = Did(op, dst, src)

CopyConstruct(dst, src) ==
  /\ ~objs[dst].live /\ objs[src].live
  /\ \E orc \in OracleBytes : objs' = uri_copy(objs, dst, src, orc)
  /\ Step("copy", dst, src)

MoveConstruct(dst, src) ==
  /\ ~objs[dst].live /\ objs[src].live
  /\ \E orc \in OracleBytes : objs' = uri_move(objs, dst, src, orc, sso)
  /\ Step("move", dst, src)

Swap(this, other) ==
  /\ this # other /\ objs[this].live /\ objs[other].live
  /\ \E orc \in OracleBytes : objs' = uri_swap(objs, this, other, orc, sso)
  /\ Step("swap", this, other)

Assign(dst, src) ==
  /\ dst # src /\ objs[dst].live /\ objs[src].live
  /\ \E orc \in OracleBytes : objs' = uri_assign(objs, dst, src, orc, sso)
  /\ Step("assign", dst, src)

\* uri::~uri()
Destroy(o) ==
  /\ objs[o].live
  /\ objs' = [objs EXCEPT ![o] = Dead]
  /\ Step("destroy", o, "")

-----------------------------------------------------------------------------
(* normalize and resolve *)

Determinate(s) == \A i \in 1..Len(s) : s[i] # Indeterminate

\* to_lower(mutable_range(str, range)): the bytes of [first, last) in lower case
to_lower(str, r) ==
  [i \in 1..Len(str) |-> IF r.has /\ i > r.first /\ i <= r.last THEN ToLower(str[i]) ELSE str[i]]

\* the ranges normalize writes through lie inside the copy of the string
NormalizeDefined(u, orc) ==
  LET parts == advance_parts(Temp, u.uri_, TRUE, uri_parts, u.parts, orc)
  IN \A c \in {"scheme", "host"} : parts[c].has => parts[c].last <= Len(u.uri_)

\* the string with its path normalized: what precedes the path, the normalized path,
\* then the query and the fragment put back
WithNormalizedPath(decoded, parts) ==
  IF parts["path"].has
  THEN Flatten(<<
         SubSeq(decoded, 1, parts["path"].first),
         normalize_path_segments(Slice(decoded, parts["path"].first, parts["path"].last)),
         IF parts["query"].has
           THEN <<63>> \o Slice(decoded, parts["query"].first, parts["query"].last) ELSE <<>>,
         IF parts["fragment"].has
           THEN <<35>> \o Slice(decoded, parts["fragment"].first, parts["fragment"].last)
           ELSE <<>> >>)
  ELSE decoded

\* after the second parse: assert(is_valid), the path, and return uri(normalized)
NormalizeParsed(decoded, again, dst) ==
  IF again.valid
  THEN uri_initialize(WithNormalizedPath(decoded, again.parts), dst)
  ELSE [valid |-> FALSE, uri |-> uri_default(dst)]

\* after the decoding: the parts parsed again
NormalizeDecoded(decoded, dst) ==
  NormalizeParsed(decoded, IF decoded = <<>> THEN ParseFailure ELSE parse(decoded, Temp), dst)

\* scheme and host in lower case
LowerSchemeAndHost(str, parts) == to_lower(to_lower(str, parts["scheme"]), parts["host"])

\* uri::normalize(uri_comparison_level::syntax_based): the uri returned, constructed in
\* slot dst, or a failure (the assert on the second parse, or uri_syntax_error)
uri_normalize(u, dst, orc) ==
  NormalizeDecoded(
    decode_encoded_unreserved_chars(
      percent_encoded_to_upper(
        LowerSchemeAndHost(u.uri_,
                           advance_parts(Temp, u.uri_, TRUE, uri_parts, u.parts, orc)))),
    dst)

\* detail::make_arg
make_arg(view) == Just(view)

\* every text resolve reads is made of bytes of a string
ResolveDefined(os, ref, base) ==
  \A c \in CompSet : Determinate(Text(os, os[ref], c)) /\ Determinate(Text(os, os[base], c))

\* resolve_args, except that a reference with an authority and no port takes the
\* base's port
resolve_args_base_port(os, ref, base) ==
  LET R == os[ref]
      B == os[base]
      T(u, c) == Text(os, u, c)
      opt(u, c) == IF Has(u, c) THEN make_arg(T(u, c)) ELSE Nothing
      noPath == ~Has(R, "path") \/ T(R, "path") = <<>>
  IN [ scheme    |-> make_arg(T(B, "scheme")),
       user_info |-> IF has_authority(R) THEN opt(R, "user_info") ELSE opt(B, "user_info"),
       host      |-> IF has_authority(R) THEN opt(R, "host") ELSE opt(B, "host"),
       port      |-> IF has_authority(R) /\ Has(R, "port") THEN opt(R, "port") ELSE opt(B, "port"),
       path      |-> IF has_authority(R)
                     THEN (IF Has(R, "path") THEN Just(remove_dot_segments(T(R, "path")))
                           ELSE Nothing)
                     ELSE IF noPath THEN opt(B, "path")
                     ELSE IF T(R, "path")[1] = 47 THEN Just(remove_dot_segments(T(R, "path")))
                     ELSE Just(merge_paths(has_authority(B), T(B, "path"), T(R, "path"))),
       query     |-> IF has_authority(R) THEN opt(R, "query")
                     ELSE IF noPath THEN (IF Has(R, "query") THEN opt(R, "query")
                                          ELSE opt(B, "query"))
                     ELSE opt(R, "query"),
       fragment  |-> opt(R, "fragment") ]

\* the optional strings uri::resolve hands to initialize when *this is not absolute
resolve_args(os, ref, base) ==
  LET R == os[ref]
      B == os[base]
      T(u, c) == Text(os, u, c)
      opt(u, c) == IF Has(u, c) THEN make_arg(T(u, c)) ELSE Nothing
      noPath == ~Has(R, "path") \/ T(R, "path") = <<>>
  IN [ scheme    |-> make_arg(T(B, "scheme")),
       user_info |-> IF has_authority(R) THEN opt(R, "user_info") ELSE opt(B, "user_info"),
       host      |-> IF has_authority(R) THEN opt(R, "host") ELSE opt(B, "host"),
       port      |-> IF has_authority(R) THEN opt(R, "port") ELSE opt(B, "port"),
       path      |-> IF has_authority(R)
                     THEN (IF Has(R, "path") THEN Just(remove_dot_segments(T(R, "path")))
                           ELSE Nothing)
                     ELSE IF noPath THEN opt(B, "path")
                     ELSE IF T(R, "path")[1] = 47 THEN Just(remove_dot_segments(T(R, "path")))
                     ELSE Just(merge_paths(has_authority(B), T(B, "path"), T(R, "path"))),
       query     |-> IF has_authority(R) THEN opt(R, "query")
                     ELSE IF noPath THEN (IF Has(R, "query") THEN opt(R, "query")
                                          ELSE opt(B, "query"))
                     ELSE opt(R, "query"),
       fragment  |-> opt(R, "fragment") ]

\* uri::resolve(const uri &base), called on slot ref, the result constructed in slot dst
uri_resolve(os, ref, base, dst, orc) ==
  IF is_absolute(os[ref])
  THEN [throws |-> FALSE, uri |-> uri_copy(os, dst, ref, orc)[dst]]     \* return *this
  ELSE uri_initialize_parts(resolve_args(os, ref, base), dst)

\* auto dst = src.normalize(uri_comparison_level::syntax_based)
Normalize(dst, src) ==
  /\ ~objs[dst].live /\ objs[src].live
  /\ \E orc \in OracleBytes :
       /\ NormalizeDefined(objs[src], orc)
       /\ LET r == uri_normalize(objs[src], dst, orc)
          IN IF r.valid
             THEN objs' = [objs EXCEPT ![dst] = r.uri] /\ hist' = Did("normalize", dst, src)
             ELSE objs' = objs /\ hist' = Did("throw", dst, src)
  /\ Count

\* auto dst = ref.resolve(base)
Resolve(dst, ref, base) ==
  /\ ~objs[dst].live /\ objs[ref].live /\ objs[base].live
  /\ ResolveDefined(objs, ref, base)
  /\ \E orc \in OracleBytes :
       LET r == uri_resolve(objs, ref, base, dst, orc)
       IN IF ~r.throws
          THEN objs' = [objs EXCEPT ![dst] = r.uri]
                 /\ hist' = [Did("resolve", dst, ref) EXCEPT !.base = base]
          ELSE objs' = objs /\ hist' = [Did("throw", dst, ref) EXCEPT !.base = base]
  /\ Count

\* uri dst(s)
Construct(o, s) ==
  /\ ConstructFromString(o, s)
  /\ Count

\* uri dst(builder): uri::uri(const uri_builder &) -> initialize(optional...)
Build(o, b) ==
  /\ ~objs[o].live
  /\ LET r == uri_initialize_parts(b, o)
     IN IF ~r.throws
        THEN objs' = [objs EXCEPT ![o] = r.uri] /\ hist' = Did("build", o, "")
        ELSE objs' = objs /\ hist' = Did("throw", o, "")
  /\ Count

-----------------------------------------------------------------------------
(* The life of uri objects: construction from strings and from a builder,  *)
(* then any sequence of copy, move, assignment, swap, normalize, resolve   *)
(* and destruction.                                                        *)

\* the strings handed to the uri constructor
UriStrings ==
  { <<115, 58, 47, 47, 104, 47, 120>>,                    \* s://h/x
    <<115, 58, 47, 47, 47, 120>>,                         \* s:///x
    <<115, 58, 47, 47, 117, 64, 104, 58, 49, 47, 112, 63, 113, 35, 102>>,   \* s://u@h:1/p?q#f
    <<115, 58, 120>> }                                    \* s:x

Parts(sc, ui, h, po, pa, q, f) ==
  [scheme |-> sc, user_info |-> ui, host |-> h, port |-> po, path |-> pa,
   query |-> q, fragment |-> f]

\* the parts set on a uri_builder
BuilderInputs ==
  { Parts(Nothing, Nothing, Nothing, Nothing, Just(<<103>>), Nothing, Nothing),            \* g
    Parts(Just(<<115>>), Nothing, Just(<<>>), Nothing, Just(<<47, 120>>), Nothing, Nothing) } \* s:///x

Init ==
  /\ byte = 0
  /\ eset = "none"
  /\ charSigned = FALSE
  /\ encoded = <<>>
  /\ input = <<>>
  /\ objs = AllDead
  /\ sso \in BOOLEAN
  /\ hist = NoHist
  /\ ops = 0

Next ==
  \/ \E o \in Slots, s \in UriStrings : Construct(o, s)
  \/ \E o \in Slots, b \in BuilderInputs : Build(o, b)
  \/ \E dst, src \in Slots : CopyConstruct(dst, src)
  \/ \E dst, src \in Slots : MoveConstruct(dst, src)
  \/ \E dst, src \in Slots : Assign(dst, src)
  \/ \E this, other \in Slots : Swap(this, other)
  \/ \E dst, src \in Slots : Normalize(dst, src)
  \/ \E dst, ref, base \in Slots : Resolve(dst, ref, base)
  \/ \E o \in Slots : Destroy(o)

Spec == Init /\ [][Next]_vars

-----------------------------------------------------------------------------
(* A string parsed and normalized twice *)

\* scheme "://" host path [query], the parts drawn from those normalize rewrites
NormalizeInputs ==
  { Flatten(<<sc, <<58, 47, 47>>, h, pa, q>>) :
      sc \in { <<115>>, <<83>> },                                   \* s S
      h \in { <<>>, <<104>>, <<72>>, <<37, 52, 49>>, <<37, 55, 101>> },   \* h H %41 %7e
      pa \in { <<>>, <<47>>, <<47, 97, 47, 46, 46, 47, 98>>,        \* / /a/../b
               <<47, 37, 55, 69>>, <<47, 37, 50, 102>>,             \* /%7E /%2f
               <<47, 46, 47, 120>> },                               \* /./x
      q \in Opt({ <<63, 37, 52, 49>> }) }                           \* ?%41

NormalizeInit ==
  /\ input \in NormalizeInputs
  /\ byte = 0
  /\ eset = "none"
  /\ charSigned = FALSE
  /\ encoded = <<>>
  /\ objs = AllDead
  /\ sso = FALSE
  /\ hist = NoHist
  /\ ops = 0

\* uri a(input); auto b = a.normalize(syntax_based); auto c = b.normalize(syntax_based)
NormalizeNext ==
  \/ FirstParse
  \/ Normalize("b", "a")
  \/ Normalize("c", "b")

NormalizeSpec == NormalizeInit /\ [][NormalizeNext]_vars

-----------------------------------------------------------------------------
(* A reference resolved against a base *)

\* references without a scheme, as a uri_builder makes them
RelativeReferences ==
  { Parts(Nothing, Nothing, Nothing, Nothing, Nothing, Nothing, Nothing),                \* (empty)
    Parts(Nothing, Nothing, Nothing, Nothing, Nothing, Just(<<121>>), Nothing),          \* ?y
    Parts(Nothing, Nothing, Nothing, Nothing, Just(<<>>), Nothing, Just(<<102>>)),       \* #f
    Parts(Nothing, Nothing, Nothing, Nothing, Just(<<103>>), Nothing, Nothing),          \* g
    Parts(Nothing, Nothing, Nothing, Nothing, Just(<<103>>), Just(<<121>>), Nothing),    \* g?y
    Parts(Nothing, Nothing, Nothing, Nothing, Just(<<47, 103>>), Nothing, Nothing),      \* /g
    Parts(Nothing, Nothing, Nothing, Nothing, Just(<<46, 46, 47, 103>>), Nothing, Nothing),   \* ../g
    Parts(Nothing, Nothing, Nothing, Nothing,
          Just(<<46, 46, 47, 46, 46, 47, 46, 46, 47, 103>>), Nothing, Nothing),          \* ../../../g
    Parts(Nothing, Nothing, Just(<<103>>), Nothing, Just(<<47, 46, 47, 120>>), Nothing, Nothing),  \* g/./x
    Parts(Nothing, Nothing, Just(<<103>>), Nothing, Nothing, Nothing, Nothing),          \* g (a host)
    Parts(Nothing, Nothing, Just(<<>>), Nothing, Just(<<47, 120>>), Nothing, Nothing),   \* /x after an empty host
    Parts(Nothing, Just(<<118>>), Just(<<103>>), Just(<<50>>),
          Just(<<47, 97, 47, 46, 46, 47, 98>>), Just(<<121>>), Just(<<101>>)),           \* v@g:2/a/../b?y#e
    Parts(Nothing, Nothing, Nothing, Nothing, Just(<<47, 103>>), Nothing, Just(<<101>>)) }   \* /g#e

\* references with a scheme
AbsoluteReferences ==
  { <<116, 58, 47, 47, 104, 47, 97, 47, 46, 46, 47, 98>>,          \* t://h/a/../b
    <<116, 58, 47, 47, 104, 47, 98>>,                              \* t://h/b
    <<116, 58, 120>> }                                             \* t:x

Bases ==
  { <<104, 116, 116, 112, 58, 47, 47, 97, 47, 98, 47, 99, 47, 100, 59, 112, 63, 113>>,   \* http://a/b/c/d;p?q
    <<115, 58, 47, 47, 117, 64, 104, 58, 49, 47, 112, 63, 113, 35, 102>>,   \* s://u@h:1/p?q#f
    <<115, 58, 47, 47, 104>>,                                      \* s://h
    <<115, 58, 47, 47, 47, 120>>,                                  \* s:///x
    <<115, 58, 47, 120>>,                                          \* s:/x
    <<115, 58, 120>> }                                             \* s:x

\* R in slot a, B in slot b, auto c = R.resolve(B)
ResolveNext ==
  \/ \E b \in RelativeReferences : Build("a", b)
  \/ \E s \in AbsoluteReferences : Construct("a", s)
  \/ \E s \in Bases : Construct("b", s)
  \/ Resolve("c", "a", "b")

ResolveInit ==
  /\ byte = 0
  /\ eset = "none"
  /\ charSigned = FALSE
  /\ encoded = <<>>
  /\ input = <<>>
  /\ objs = AllDead
  /\ sso = FALSE
  /\ hist = NoHist
  /\ ops = 0

ResolveSpec == ResolveInit /\ [][ResolveNext]_vars

-----------------------------------------------------------------------------
(* Claims about normalize *)

\* C4: syntax-based normalization is idempotent: normalizing the normalized uri gives a
\* uri with the same string, also when the host holds a percent triple that encodes an
\* unreserved byte
C4_NormalizeIdempotent ==
  (hist.op = "normalize" /\ hist.dst = "c") => objs["c"].uri_ = objs["b"].uri_

-----------------------------------------------------------------------------
(* Claims about copy, move, assignment and swap *)

\* C5: whatever copies, moves, assignments, swaps, normalizations and resolutions have
\* been applied, every present component of every live uri is a range of that uri's own
\* string: it points into no other storage and does not pass the end of the string
C5_RangesInOwnString ==
  \A o \in Slots : objs[o].live => InOwnString(objs[o], o)

\* C6: a copy-constructed uri has the string of the original and, for every component,
\* its presence and its text, over ranges of the copy's own string; the original is
\* left as it was
C6_CopyPreserves ==
  (hist.op = "copy" /\ InOwnString(hist.pre[hist.src], hist.src))
    => /\ SameUri(objs, objs[hist.dst], hist.pre, hist.pre[hist.src])
       /\ InOwnString(objs[hist.dst], hist.dst)
       /\ objs[hist.src] = hist.pre[hist.src]

\* C7: a.swap(b) exchanges the two values: a has the string and, per component, the
\* presence and text b had, and b those a had
C7_SwapExchanges ==
  (/\ hist.op = "swap"
   /\ InOwnString(hist.pre[hist.dst], hist.dst)
   /\ InOwnString(hist.pre[hist.src], hist.src))
    => /\ SameUri(objs, objs[hist.dst], hist.pre, hist.pre[hist.src])
       /\ SameUri(objs, objs[hist.src], hist.pre, hist.pre[hist.dst])

-----------------------------------------------------------------------------
(* Claims about resolve *)

\* the reference, the base and the result of the last resolve
ResolvedRef == hist.pre[hist.src]
ResolvedBase == hist.pre[hist.base]
Resolved == objs[hist.dst]

\* the component c of the result is present exactly when it is in u, with u's text
TakenFrom(u, c) ==
  /\ Has(Resolved, c) = Has(u, c)
  /\ Text(objs, Resolved, c) = Text(hist.pre, u, c)

\* the path of the result is present and reads p
PathIs(p) == Has(Resolved, "path") /\ Text(objs, Resolved, "path") = p

\* C8: a reference with a scheme resolves to itself with the dot-segments of its path
\* removed, whatever the base
C8_AbsoluteReference ==
  (hist.op = "resolve" /\ is_absolute(ResolvedRef))
    => /\ \A c \in CompSet \ {"path"} : TakenFrom(ResolvedRef, c)
       /\ Has(Resolved, "path") = Has(ResolvedRef, "path")
       /\ Text(objs, Resolved, "path")
            = remove_dot_segments(Text(hist.pre, ResolvedRef, "path"))

\* C9: a reference without scheme and authority whose path is absent or empty resolves
\* to the base's scheme, user_info, host, port and path, with the reference's query if
\* it has one and the base's otherwise
C9_EmptyPathReference ==
  (/\ hist.op = "resolve"
   /\ ~is_absolute(ResolvedRef) /\ ~has_authority(ResolvedRef)
   /\ Text(hist.pre, ResolvedRef, "path") = <<>>)
    => /\ \A c \in {"scheme", "user_info", "host", "port", "path"} : TakenFrom(ResolvedBase, c)
       /\ TakenFrom(IF Has(ResolvedRef, "query") THEN ResolvedRef ELSE ResolvedBase, "query")

\* C10: a reference without scheme and authority whose path is not empty resolves to
\* the base's scheme, user_info, host and port; the path is the reference's without
\* dot-segments when it starts with '/', and otherwise the base's path with its last
\* segment replaced by the reference's path, dot-segments removed; the query is the
\* reference's
C10_PathReference ==
  (/\ hist.op = "resolve"
   /\ ~is_absolute(ResolvedRef) /\ ~has_authority(ResolvedRef)
   /\ Text(hist.pre, ResolvedRef, "path") # <<>>)
    => /\ \A c \in {"scheme", "user_info", "host", "port"} : TakenFrom(ResolvedBase, c)
       /\ PathIs(IF Text(hist.pre, ResolvedRef, "path")[1] = 47
                 THEN remove_dot_segments(Text(hist.pre, ResolvedRef, "path"))
                 ELSE merge_paths(has_authority(ResolvedBase),
                                  Text(hist.pre, ResolvedBase, "path"),
                                  Text(hist.pre, ResolvedRef, "path")))
       /\ TakenFrom(ResolvedRef, "query")

\* C11: a reference without a scheme but with an authority resolves to the base's
\* scheme, the reference's user_info, host, port and query, and the reference's path
\* without dot-segments; nothing else of the base is taken
C11_AuthorityReference ==
  (hist.op = "resolve" /\ ~is_absolute(ResolvedRef) /\ has_authority(ResolvedRef))
    => /\ TakenFrom(ResolvedBase, "scheme")
       /\ \A c \in {"user_info", "host", "port", "query"} : TakenFrom(ResolvedRef, c)
       /\ Has(Resolved, "path") = Has(ResolvedRef, "path")
       /\ Text(objs, Resolved, "path")
            = remove_dot_segments(Text(hist.pre, ResolvedRef, "path"))

\* a reference "g/./x" with a host and without port or query, resolved against a base
\* that has user_info, port and query
C11_Witness ==
  /\ hist.op = "resolve"
  /\ ~is_absolute(ResolvedRef) /\ has_authority(ResolvedRef)
  /\ ~Has(ResolvedRef, "port") /\ ~Has(ResolvedRef, "query")
  /\ Has(ResolvedBase, "user_info") /\ Has(ResolvedBase, "port") /\ Has(ResolvedBase, "query")
  /\ Text(hist.pre, ResolvedRef, "path") # Text(objs, Resolved, "path")
  /\ Resolved.uri_ = <<115, 58, 47, 47, 103, 47, 120>>                \* s://g/x

\* C12: the fragment of a resolved uri is the reference's fragment when it has one and
\* is absent when it has none, whatever the base
C12_FragmentOfReference ==
  hist.op = "resolve" => TakenFrom(ResolvedRef, "fragment")

-----------------------------------------------------------------------------
(* Claims about the normalized form *)

\* the uri the last normalize returned
Normalized == objs[hist.dst]

IsUpperAlpha(c) == c >= 65 /\ c <= 90

\* the path p has a segment "." or ".."
HasDotSegment(p) ==
  \E i \in 1..Len(p) :
    /\ i = 1 \/ p[i - 1] = 47
    /\ p[i] = 46
    /\ \/ i = Len(p)
       \/ p[i + 1] = 47
       \/ (p[i + 1] = 46 /\ (i + 1 = Len(p) \/ p[i + 2] = 47))

\* C13: in a normalized uri the scheme and the host have no upper-case letter, every
\* percent triple has upper-case hex digits and encodes no unreserved byte, and the
\* path has no "." or ".." segment
C13_NormalForm ==
  hist.op = "normalize"
    => /\ \A c \in {"scheme", "host"} :
            \A i \in 1..Len(Text(objs, Normalized, c)) :
               ~IsUpperAlpha(Text(objs, Normalized, c)[i])
       /\ \A i \in 1..Len(Normalized.uri_) :
            IsTripleAt(Normalized.uri_, i)
              => /\ ToUpper(Normalized.uri_[i + 1]) = Normalized.uri_[i + 1]
                 /\ ToUpper(Normalized.uri_[i + 2]) = Normalized.uri_[i + 2]
                 /\ ~IsUnreserved(16 * HexValue(Normalized.uri_[i + 1])
                                    + HexValue(Normalized.uri_[i + 2]))
       /\ ~HasDotSegment(Text(objs, Normalized, "path"))

-----------------------------------------------------------------------------
(* Further claims about the percent-encoder *)

\* the bytes, as the char the build makes of them, that a predicate of the code accepts
InCodeSet(s) ==
  { b \in Bytes :
      \/ (s = "c0_control" /\ is_c0_control_byte(CharValue(b, charSigned)))
      \/ (s = "fragment" /\ is_fragment_byte(CharValue(b, charSigned)))
      \/ (s = "path" /\ is_path_byte(CharValue(b, charSigned)))
      \/ (s = "userinfo" /\ is_userinfo_byte(CharValue(b, charSigned))) }

\* C14: the encode sets are strictly nested: c0_control in fragment in path in
\* userinfo, each inclusion proper
C14_StrictlyNested ==
  /\ InCodeSet("c0_control") \subseteq InCodeSet("fragment")
  /\ InCodeSet("fragment") \subseteq InCodeSet("path")
  /\ InCodeSet("path") \subseteq InCodeSet("userinfo")
  /\ InCodeSet("c0_control") # InCodeSet("fragment")
  /\ InCodeSet("fragment") # InCodeSet("path")
  /\ InCodeSet("path") # InCodeSet("userinfo")

\* the byte encoded is in a larger set and not in the next smaller one, on a build with
\* signed char
C14_Witness ==
  /\ encoded # <<>> /\ charSigned
  /\ byte \in InCodeSet("userinfo") \ InCodeSet("path")
  /\ eset = "userinfo" /\ Len(encoded) = 3

\* is_percent_encoded(input): exactly '%' and two hex digits
is_percent_encoded(s) ==
  Len(s) = 3 /\ s[1] = 37 /\ IsHexDigit(s[2]) /\ IsHexDigit(s[3])

\* percent_decode: left to right, every '%' followed by two hex digits replaced by the
\* byte they denote, everything else passed through
RECURSIVE percent_decode(_)
percent_decode(s) ==
  IF s = <<>> THEN <<>>
  ELSE IF IsTripleAt(s, 1)
  THEN <<16 * HexValue(s[2]) + HexValue(s[3])>> \o percent_decode(SubSeq(s, 4, Len(s)))
  ELSE <<Head(s)>> \o percent_decode(Tail(s))

\* C15: whenever percent_encode_byte returns three bytes, they are a percent triple and
\* decoding them gives back the one byte that was encoded
C15_DecodeOfEncodedByte ==
  (encoded # <<>> /\ Len(encoded) = 3)
    => is_percent_encoded(encoded) /\ percent_decode(encoded) = <<byte>>

\* the byte 0xAF, negative as a signed char, encoded to three bytes and decoded
C15_Witness ==
  /\ Len(encoded) = 3 /\ byte = 175 /\ charSigned /\ eset = "fragment"
  /\ percent_decode(encoded) = <<175>>

\* C17: with encode_set::none every byte gets the three-byte form, bytes of no named
\* set (letters, digits, '~') included
C17_NoneEncodesEveryByte ==
  (encoded # <<>> /\ eset = "none")
    => /\ Len(encoded) = 3
       /\ encoded = <<37, HexDigit(byte \div 16), HexDigit(byte % 16)>>

\* '~' (0x7E), in no named set, encoded with none to "%7E"
C17_Witness ==
  /\ eset = "none" /\ byte = 126 /\ encoded = <<37, 55, 69>>
  /\ byte \notin SpecUserinfo

-----------------------------------------------------------------------------
(* A byte string percent-encoded byte by byte, and the result encoded again *)

MaxStringLen == 2

\* '%', space, '/', 'a', and a byte of 0x80 or more
StringAlphabet == {37, 32, 47, 97, 200}

ByteStrings == UNION { [1..n -> StringAlphabet] : n \in 0..MaxStringLen }

\* percent_encode_byte applied to each byte of s in turn, the results concatenated
percent_encode_bytes(s, excludes, signed) ==
  Flatten([i \in 1..Len(s) |-> percent_encode_byte(CharValue(s[i], signed), excludes)])

EncodeStringInit ==
  /\ input \in ByteStrings
  /\ eset \in encode_set
  /\ charSigned \in BOOLEAN
  /\ byte = 0
  /\ encoded = <<>>
  /\ objs = AllDead
  /\ sso = FALSE
  /\ hist = NoHist
  /\ ops = 0

\* encode(x)
EncodeString ==
  /\ ops = 0
  /\ encoded' = percent_encode_bytes(input, eset, charSigned)
  /\ ops' = 1
  /\ UNCHANGED <<byte, eset, charSigned, input, objs, sso, hist>>

\* encode(encode(x)); the string encoded is kept in hist.pre
EncodeAgain ==
  /\ ops = 1
  /\ encoded' = percent_encode_bytes(encoded, eset, charSigned)
  /\ hist' = [NoHist EXCEPT !.op = "encode", !.pre = encoded]
  /\ ops' = 2
  /\ UNCHANGED <<byte, eset, charSigned, input, objs, sso>>

EncodeStringNext == EncodeString \/ EncodeAgain

EncodeStringSpec == EncodeStringInit /\ [][EncodeStringNext]_vars

\* C16 as stated: for every byte string that contains '%', encoding the encoded string
\* once more gives a different string
C16_NotIdempotent ==
  (hist.op = "encode" /\ \E i \in 1..Len(input) : input[i] = 37)
    => encoded # hist.pre

\* C16 as the code has it: with c0_control, fragment, path and userinfo, encoding the
\* encoded string once more gives the same string, with or without '%' in it; with
\* none, it gives a different string for every string that is not empty
C16_IdempotentOnNamedSets ==
  hist.op = "encode"
    => IF eset = "none"
       THEN input # <<>> => encoded # hist.pre
       ELSE encoded = hist.pre

\* "% " encoded under path to "%%20" and encoded again
C16_Witness ==
  /\ hist.op = "encode" /\ eset = "path"
  /\ input = <<37, 32>>
  /\ hist.pre = <<37, 37, 50, 48>>
  /\ encoded = hist.pre

-----------------------------------------------------------------------------
(* The parser that returns a url_result.  Its body is outside the files at  *)
(* hand and follows sections 4.3 and 7 of the written specification: the    *)
(* input is pre-processed, deviations from the ideal form are recorded as   *)
(* validation errors, and only the fatal conditions make the parse fail.    *)

\* url_result(): url{}, success{false}, validation_error{false}
url_result == [url |-> <<>>, success |-> FALSE, validation_error |-> FALSE]

\* a port of at most 65535
RECURSIVE PortValue(_, _)
PortValue(digits, acc) ==
  IF digits = <<>> \/ acc > 65535 THEN acc
  ELSE PortValue(Tail(digits), 10 * acc + (Head(digits) - 48))

\* bytes the host parser rejects in a host
ForbiddenHostBytes == {0, 9, 10, 13, 32, 35, 47, 58, 60, 62, 63, 64, 91, 92, 93, 94, 124}

\* the text of the part r of the string u
PartText(u, r) == IF r.has THEN Slice(u, r.first, r.last) ELSE <<>>

\* the parts of the pre-processed input u
UrlParts(u) ==
  IF u = <<>> \/ ~IsAlpha(u[1]) THEN ParseFailure ELSE ParseScheme(u, Temp, SchemeEnd(u, 1))

\* the serialized url: every component percent-encoded with its set
UrlSerialized(u, p) ==
  Flatten(<<
    PartText(u, p["scheme"]), <<58>>,
    IF p["host"].has THEN <<47, 47>> ELSE <<>>,
    IF p["user_info"].has
      THEN percent_encode_bytes(PartText(u, p["user_info"]), "userinfo", FALSE) \o <<64>>
      ELSE <<>>,
    PartText(u, p["host"]),
    IF p["port"].has THEN <<58>> \o PartText(u, p["port"]) ELSE <<>>,
    percent_encode_bytes(PartText(u, p["path"]),
                         IF p["host"].has THEN "path" ELSE "c0_control", FALSE),
    IF p["query"].has
      THEN <<63>> \o percent_encode_bytes(PartText(u, p["query"]), "path", FALSE) ELSE <<>>,
    IF p["fragment"].has
      THEN <<35>> \o percent_encode_bytes(PartText(u, p["fragment"]), "fragment", FALSE)
      ELSE <<>> >>)

\* the parse succeeds unless a fatal condition was met
UrlSuccess(u, r) ==
  /\ r.valid
  /\ \A i \in 1..Len(PartText(u, r.parts["host"])) :
        PartText(u, r.parts["host"])[i] \notin ForbiddenHostBytes
  /\ PortValue(PartText(u, r.parts["port"]), 0) <= 65535

\* a validation error is recorded for: a byte trimmed or removed by the pre-processing,
\* credentials in the url, a '%' not followed by two hex digits
UrlValidationError(s, u, r) ==
  \/ u # s
  \/ (r.valid /\ r.parts["user_info"].has)
  \/ \E i \in 1..Len(u) : u[i] = 37 /\ ~IsTripleAt(u, i)

\* parse with success cleared by a recorded validation error
UrlResult_errors_fail(s, u, r) ==
  [ url |-> IF UrlSuccess(u, r) /\ ~UrlValidationError(s, u, r)
            THEN UrlSerialized(u, r.parts) ELSE <<>>,
    success |-> UrlSuccess(u, r) /\ ~UrlValidationError(s, u, r),
    validation_error |-> UrlValidationError(s, u, r) ]

\* the url_result of parsing s, u being s pre-processed and r the parts found
UrlResult(s, u, r) ==
  [ url |-> IF UrlSuccess(u, r) THEN UrlSerialized(u, r.parts) ELSE <<>>,
    success |-> UrlSuccess(u, r),
    validation_error |-> UrlValidationError(s, u, r) ]

\* parse(string_view input, uri_parts &parts, url_state state_override = null)
url_parse(s) == UrlResult(s, trim_copy(s), UrlParts(trim_copy(s)))

\* inputs with a special scheme and with ports around 65535, added to the parsed strings
UrlInputs ==
  InputStrings \cup
  { <<119, 115, 58, 47, 47>>,                                       \* ws://
    <<119, 115, 58, 47, 47, 97>>,                                   \* ws://a
    <<32, 119, 115, 58, 47, 47>>,                                   \* ws:// after a space
    <<97, 58, 47, 47, 97, 58, 54, 53, 53, 51, 53>>,                 \* a://a:65535
    <<97, 58, 47, 47, 97, 58, 54, 53, 53, 51, 54>>,                 \* a://a:65536
    <<97, 58, 47, 47, 97, 64, 97, 58, 54, 53, 53, 51, 54, 32>>,     \* a://a@a:65536 and a space
    <<97, 58, 47, 47, 97, 32, 97>>,                                 \* a://a a
    <<97, 58, 37, 97>> }                                            \* a:%a

UrlParseInit ==
  /\ input \in UrlInputs
  /\ byte = 0
  /\ eset = "none"
  /\ charSigned = FALSE
  /\ encoded = <<>>
  /\ objs = AllDead
  /\ sso = FALSE
  /\ hist = NoHist
  /\ ops = 0

\* auto result = parse(input, parts)
UrlParse ==
  /\ hist.op = "none"
  /\ hist' = [op |-> "parse", result |-> url_parse(input)]
  /\ UNCHANGED <<byte, eset, charSigned, encoded, input, objs, sso, ops>>

UrlParseNext == UrlParse

UrlParseSpec == UrlParseInit /\ [][UrlParseNext]_vars

-----------------------------------------------------------------------------
(* The fatal conditions, stated on the text of the pre-processed input *)

\* the index of the ':' that ends the scheme of u, or 0 when u has no scheme
SchemeColon(u) ==
  IF \E k \in 2..Len(u) : u[k] = 58 /\ IsAlpha(u[1]) /\ \A i \in 1..(k - 1) : IsSchemeChar(u[i])
  THEN CHOOSE k \in 2..Len(u) :
         u[k] = 58 /\ IsAlpha(u[1]) /\ \A i \in 1..(k - 1) : IsSchemeChar(u[i])
  ELSE 0

\* u has "//" after the scheme that ends at index k
HasAuthorityAfter(u, k) == k + 2 <= Len(u) /\ u[k + 1] = 47 /\ u[k + 2] = 47

\* the longest prefix of t without a byte of stop
RECURSIVE Before(_, _)
Before(t, stop) ==
  IF t = <<>> \/ Head(t) \in stop THEN <<>> ELSE <<Head(t)>> \o Before(Tail(t), stop)

\* what follows the last byte c of t; t itself when it has none
RECURSIVE AfterLast(_, _)
AfterLast(t, c) ==
  IF \E i \in 1..Len(t) : t[i] = c THEN AfterLast(Tail(t), c) ELSE t

\* the authority of u, its host-and-port, and whether it has credentials
AuthorityOf(u) == Before(SubSeq(u, SchemeColon(u) + 3, Len(u)), {47, 63, 35})
HostPortOf(u) == AfterLast(AuthorityOf(u), 64)
HostOf(u) == Before(HostPortOf(u), {58})
PortOf(u) == SubSeq(HostPortOf(u), Len(HostOf(u)) + 2, Len(HostPortOf(u)))

\* a fatal condition is met in u
Fatal(u) ==
  \/ SchemeColon(u) = 0
  \/ /\ HasAuthorityAfter(u, SchemeColon(u))
     /\ \/ \E i \in 1..Len(PortOf(u)) : ~IsDigit(PortOf(u)[i])
        \/ PortValue(PortOf(u), 0) > 65535
        \/ \E i \in 1..Len(HostOf(u)) : HostOf(u)[i] \in ForbiddenHostBytes
        \/ /\ HostOf(u) = <<>>
           /\ \/ HostPortOf(u) # AuthorityOf(u)
              \/ SubSeq(u, 1, SchemeColon(u) - 1) \in SpecialSchemes \ {FileScheme}

-----------------------------------------------------------------------------
(* url::query_iterator.  The iterator holds query_, the part of the url's    *)
(* string still to be read (offsets into the query part, absent at the end), *)
(* and nvp_, the current name and value as views [off, len] of that string.  *)
(* q is the text of the query part handed to query_begin(): the query with   *)
(* the '?' it starts at.                                                     *)

QuerySeparators == {38, 59}     \* '&' and ';'

View(off, len) == [off |-> off, len |-> len]
ViewText(q, v) == Slice(q, v.off, v.off + v.len)

\* std::find_if(first, last, pred): the least offset in [first, last) whose byte is in
\* stop, or last
RECURSIVE find_if(_, _, _, _)
find_if(q, first, last, stop) ==
  IF first >= last THEN last
  ELSE IF q[first + 1] \in stop THEN first
  ELSE find_if(q, first + 1, last, stop)

\* query_iterator(): no query_, an empty pair
query_iterator_default == [query_ |-> NoRange, nvp_ |-> <<View(0, 0), View(0, 0)>>]

\* the pair found with the separator at sep_it and the '=' at eq_it
AssignedPair(first, sep_it, eq_it) ==
  << View(first, eq_it - first),
     IF eq_it # sep_it
       THEN View(eq_it + 1, sep_it - (eq_it + 1))     \* skip '=' symbol
       ELSE View(eq_it, sep_it - eq_it) >>

AssignUpTo(q, it, sep_it) ==
  [it EXCEPT !.nvp_ = AssignedPair(it.query_.first, sep_it,
                                   find_if(q, it.query_.first, sep_it, {61}))]

\* the current pair always gets an empty name
assign_no_name(q, it) ==
  [it EXCEPT !.nvp_ = <<View(it.query_.first, 0), it.nvp_[2]>>]

\* query_iterator::assign
assign(q, it) ==
  AssignUpTo(q, it, find_if(q, it.query_.first, it.query_.last, QuerySeparators))

AdvanceTo(it, sep_it) ==
  [it EXCEPT !.query_ =
     Range(Temp, IF sep_it # it.query_.last THEN sep_it + 1 ELSE sep_it, it.query_.last)]

\* query_iterator::advance: query_ becomes what follows the next separator
advance(q, it) ==
  AdvanceTo(it, find_if(q, it.query_.first, it.query_.last, QuerySeparators))

\* uri_part::empty
part_empty(r) == r.first = r.last

EndIfEmpty(it) ==
  IF part_empty(it.query_) THEN [it EXCEPT !.query_ = NoRange] ELSE it

\* query_iterator::increment
increment(q, it) ==
  EndIfEmpty(IF ~part_empty(it.query_) THEN assign(q, advance(q, it)) ELSE it)

\* query_iterator(optional<detail::uri_part> query): skip '?', then end or assign
query_iterator(q, query) ==
  IF part_empty(Range(Temp, query.first + 1, query.last))
  THEN query_iterator_default
  ELSE assign(q, [query_iterator_default EXCEPT
                    !.query_ = Range(Temp, query.first + 1, query.last)])

\* query_begin(): the iterator over the query part of the url
query_begin(q) == query_iterator(q, Range(Temp, 0, Len(q)))

\* query_end()
query_end == query_iterator_default

\* operator==: two end iterators are equal; iterators that both have a query_ are equal
\* when their nvp_ members have the same address, that is when they are one object
query_iterator_equal(a, b, sameObject) ==
  IF ~a.query_.has /\ ~b.query_.has THEN TRUE
  ELSE IF a.query_.has /\ b.query_.has THEN sameObject
  ELSE FALSE

MaxQueryLen == 4
QueryAlphabet == {97, 98, 61, 38, 59}      \* a b = & ;

RECURSIVE QueryTexts(_)
QueryTexts(n) ==
  IF n = 0 THEN {<<>>}
  ELSE QueryTexts(n - 1) \cup
       {Append(s, c) : s \in {t \in QueryTexts(n - 1) : Len(t) = n - 1}, c \in QueryAlphabet}

\* the query parts: '?' and the query
QueryParts == {<<63>> \o s : s \in QueryTexts(MaxQueryLen)}

QueryInit ==
  /\ input \in QueryParts
  /\ byte = 0
  /\ eset = "none"
  /\ charSigned = FALSE
  /\ encoded = <<>>
  /\ objs = AllDead
  /\ sso = FALSE
  /\ hist = [op |-> "none", it |-> query_iterator_default, yielded |-> <<>>]
  /\ ops = 0

\* auto it = url.query_begin()
QueryBegin ==
  /\ hist.op = "none"
  /\ hist' = [hist EXCEPT !.op = "test", !.it = query_begin(input)]
  /\ UNCHANGED <<byte, eset, charSigned, encoded, input, objs, sso, ops>>

\* it != url.query_end() holds; the loop body reads *it
QueryDeref ==
  /\ hist.op = "test"
  /\ ~query_iterator_equal(hist.it, query_end, FALSE)
  /\ hist' = [hist EXCEPT
                !.op = "body",
                !.yielded = Append(@, << ViewText(input, hist.it.nvp_[1]),
                                         ViewText(input, hist.it.nvp_[2]) >>)]
  /\ UNCHANGED <<byte, eset, charSigned, encoded, input, objs, sso, ops>>

\* ++it
QueryIncrement ==
  /\ hist.op = "body"
  /\ hist' = [hist EXCEPT !.op = "test", !.it = increment(input, hist.it)]
  /\ ops' = ops + 1
  /\ UNCHANGED <<byte, eset, charSigned, encoded, input, objs, sso>>

QueryNext == QueryBegin \/ QueryDeref \/ QueryIncrement

\* the loop runs on while it can: a step that is possible is taken
QuerySpec == QueryInit /\ [][QueryNext]_vars /\ WF_vars(QueryNext)

-----------------------------------------------------------------------------
(* What the iteration is to yield *)

\* the pieces of the query s: each runs up to the next separator or to the end of the
\* query; a separator that ends the query ends the last piece
RECURSIVE Pieces(_)
Pieces(s) ==
  IF s = <<>> THEN <<>>
  ELSE <<Before(s, QuerySeparators)>>
         \o Pieces(SubSeq(s, Len(Before(s, QuerySeparators)) + 2, Len(s)))

\* the name of a piece is its text before the first '=', the value the text after it
NameOf(p) == Before(p, {61})
ValueOf(p) == SubSeq(p, Len(NameOf(p)) + 2, Len(p))

ExpectedPairs(s) == [i \in 1..Len(Pieces(s)) |-> <<NameOf(Pieces(s)[i]), ValueOf(Pieces(s)[i])>>]

\* the iterator has reached query_end()
QueryAtEnd == hist.op = "test" /\ query_iterator_equal(hist.it, query_end, FALSE)

-----------------------------------------------------------------------------
(* uri::compare *)

Sign(d) == IF d < 0 THEN -1 ELSE IF d > 0 THEN 1 ELSE 0

\* what a comparison that found the difference d may return: the standard fixes the
\* sign only; builds return the sign or the difference itself
CompareOutcomes(d) == {Sign(d), d}

\* std::string::compare: the bytes are compared as unsigned values over the common
\* length, and the lengths when those agree
RECURSIVE string_compare(_, _)
string_compare(x, y) ==
  IF x = <<>> \/ y = <<>> THEN CompareOutcomes(Len(x) - Len(y))
  ELSE IF Head(x) # Head(y) THEN CompareOutcomes(Head(x) - Head(y))
  ELSE string_compare(Tail(x), Tail(y))

ComparisonLevels == {"string_comparison", "syntax_based"}

\* normalize(level) as compare uses it: the normalized uri, or a failure
normalize_at(u, level, orc) ==
  IF level = "syntax_based" THEN uri_normalize(u, Temp, orc) ELSE uri_initialize(u.uri_, Temp)

Terminated == "terminate"

\* the comparison of the two normalized uris; an exception leaving normalize ends the
\* program, compare being noexcept
CompareNormalized(n1, n2) ==
  IF n1.valid /\ n2.valid THEN string_compare(n1.uri.uri_, n2.uri.uri_) ELSE {Terminated}

\* uri::compare(const uri &other, uri_comparison_level level): the values it may return
uri_compare(this, other, level, orc) ==
  IF empty(this) /\ empty(other) THEN {0}
  ELSE IF empty(this) THEN {-1}
  ELSE IF empty(other) THEN {1}
  ELSE CompareNormalized(normalize_at(this, level, orc), normalize_at(other, level, orc))

\* the strings of the uris compared: the empty uri, uris that differ in one byte by 1
\* and by 2, in length by 1 and by 2, and uris that are equal once normalized
CompareInputs ==
  { <<>>,
    <<115, 58, 97>>,                                  \* s:a
    <<115, 58, 98>>,                                  \* s:b
    <<115, 58, 99>>,                                  \* s:c
    <<115, 58, 97, 47>>,                              \* s:a/
    <<115, 58, 97, 47, 98>>,                          \* s:a/b
    <<83, 58, 97>>,                                   \* S:a
    <<115, 58, 47, 47, 104, 47, 98>>,                 \* s://h/b
    <<115, 58, 47, 47, 72, 47, 97, 47, 46, 46, 47, 98>> }   \* s://H/a/../b

CompareInit ==
  /\ input \in CompareInputs
  /\ byte = 0
  /\ eset = "none"
  /\ charSigned = FALSE
  /\ encoded = <<>>
  /\ objs = AllDead
  /\ sso = FALSE
  /\ hist = NoHist
  /\ ops = 0

\* uri b(s)
SecondParse ==
  /\ hist.op = "construct" /\ hist.dst = "a"
  /\ \E s \in CompareInputs : ConstructFromString("b", s)
  /\ UNCHANGED <<byte, eset, charSigned, encoded, input, sso, ops>>

\* int r = a.compare(b, level)
Compare ==
  /\ hist.op = "construct" /\ hist.dst = "b"
  /\ \E level \in ComparisonLevels, orc \in OracleBytes :
       /\ NormalizeDefined(objs["a"], orc) /\ NormalizeDefined(objs["b"], orc)
       /\ \E r \in uri_compare(objs["a"], objs["b"], level, orc) :
            hist' = [op |-> "compare", dst |-> "a", src |-> "b", base |-> level,
                     pre |-> objs, result |-> r]
  /\ UNCHANGED <<byte, eset, charSigned, encoded, input, objs, sso, ops>>

\* uri a(input); uri b(s); a.compare(b, level)
CompareNext == FirstParse \/ SecondParse \/ Compare

CompareSpec == CompareInit /\ [][CompareNext]_vars

\* C20: compare(other) returns exactly 0 when the two uris are considered equal, exactly
\* -1 when this is less than other and exactly 1 when it is greater; no other integer.
C20_CompareReturns ==
  hist.op = "compare" =>
    /\ hist.result \in {-1, 0, 1}
    /\ (hist.result = 0) =
         (\/ (empty(objs["a"]) /\ empty(objs["b"]))
          \/ (~empty(objs["a"]) /\ ~empty(objs["b"])
                /\ \E orc \in OracleBytes :
                     normalize_at(objs["a"], hist.base, orc).uri.uri_
                       = normalize_at(objs["b"], hist.base, orc).uri.uri_))

-----------------------------------------------------------------------------
(* Claims about assignment and assembly from parts *)

\* C22: after a = b, a has the string of b and, for every component, the presence and
\* the text b has, whatever components a had before; b is left as it was
C22_AssignCopies ==
  (hist.op = "assign" /\ InOwnString(hist.pre[hist.src], hist.src)
                      /\ InOwnString(hist.pre[hist.dst], hist.dst))
    => /\ SameUri(objs, objs[hist.dst], hist.pre, hist.pre[hist.src])
       /\ objs[hist.src] = hist.pre[hist.src]

-----------------------------------------------------------------------------
(* A uri assembled from optional parts *)

OptText(texts) == {Nothing} \cup {Just(t) : t \in texts}

\* the optional strings handed to initialize
AssembledParts ==
  { Parts(sc, ui, h, pt, pa, q, f) :
      sc \in OptText({<<115>>}),                                        \* s
      ui \in OptText({<<117>>}),                                        \* u
      h \in OptText({<<>>, <<104>>}),                                   \* h
      pt \in OptText({<<49>>}),                                         \* 1
      pa \in OptText({<<>>, <<120>>, <<47, 120>>, <<47, 47, 120>>}),    \* x /x //x
      q \in OptText({<<113>>}),                                         \* q
      f \in OptText({<<102>>}) }                                        \* f

AssembleInit ==
  /\ input \in AssembledParts
  /\ byte = 0
  /\ eset = "none"
  /\ charSigned = FALSE
  /\ encoded = <<>>
  /\ objs = AllDead
  /\ sso = FALSE
  /\ hist = NoHist
  /\ ops = 0

\* uri a; a.initialize(scheme, user_info, host, port, path, query, fragment)
AssembleNext == Build("a", input)

AssembleSpec == AssembleInit /\ [][AssembleNext]_vars

\* the text the accessor of component c is to return for the parts b
SuppliedText(b, c) ==
  IF c = "path" /\ b["host"].has /\ b["path"].str # <<>> /\ b["path"].str[1] # 47
  THEN <<47>> \o b["path"].str
  ELSE b[c].str

\* C23: a uri assembled from optional parts without throwing has exactly the parts
\* supplied, each accessor returns the text supplied for its part (the path prefixed
\* with '/' when a host is given and the path is non-empty without a leading '/'), and
\* every range lies within the assembled string
C23_AssembledParts ==
  hist.op = "build" =>
    /\ \A c \in CompSet :
          /\ Has(objs["a"], c) = input[c].has
          /\ input[c].has => Text(objs, objs["a"], c) = SuppliedText(input, c)
    /\ InOwnString(objs["a"], "a")

-----------------------------------------------------------------------------
(* url::path_iterator.  The iterator holds path_, the part of the path still *)
(* to be read (absent at the end), and element_, the current segment as a    *)
(* view of the path.  p is the text of the path part handed to path_begin(). *)

\* path_iterator(): no path_, an empty element
path_iterator_default == [path_ |-> NoRange, element_ |-> View(0, 0)]

\* path_iterator::advance: path_ becomes what follows the next '/'
PathAdvanceTo(it, sep_it) ==
  [it EXCEPT !.path_ =
     Range(Temp, IF sep_it # it.path_.last THEN sep_it + 1 ELSE sep_it, it.path_.last)]

path_advance(p, it) == PathAdvanceTo(it, find_if(p, it.path_.first, it.path_.last, {47}))

\* path_iterator::assign: element_ is path_ up to its first '/'
path_assign(p, it) ==
  [it EXCEPT !.element_ =
     View(it.path_.first,
          find_if(p, it.path_.first, it.path_.last, {47}) - it.path_.first)]

PathEndIfEmpty(it) ==
  IF part_empty(it.path_) THEN [it EXCEPT !.path_ = NoRange] ELSE it

\* path_iterator::increment
path_increment(p, it) ==
  PathEndIfEmpty(IF ~part_empty(it.path_) THEN path_assign(p, path_advance(p, it)) ELSE it)

\* path_iterator(optional<detail::uri_part> path): the end for an empty path, otherwise
\* skip past '/' and assign
path_iterator(p, path) ==
  IF part_empty(path) THEN path_iterator_default
  ELSE path_assign(p, path_advance(p, [path_iterator_default EXCEPT !.path_ = path]))

\* path_begin(): the iterator over the path part of the url
path_begin(p) == path_iterator(p, Range(Temp, 0, Len(p)))

\* path_end()
path_end == path_iterator_default

\* operator==: two end iterators are equal; iterators that both have a path_ are equal
\* when their element_ members have the same address, that is when they are one object
path_iterator_equal(a, b, sameObject) ==
  IF ~a.path_.has /\ ~b.path_.has THEN TRUE
  ELSE IF a.path_.has /\ b.path_.has THEN sameObject
  ELSE FALSE

MaxPathLen == 4
PathAlphabet == {97, 98, 47}      \* a b /

RECURSIVE PathTexts(_)
PathTexts(n) ==
  IF n = 0 THEN {<<>>}
  ELSE PathTexts(n - 1) \cup
       {Append(s, c) : s \in {t \in PathTexts(n - 1) : Len(t) = n - 1}, c \in PathAlphabet}

\* the paths: '/' and what follows it
PathParts == {<<47>> \o s : s \in PathTexts(MaxPathLen)}

PathInit ==
  /\ input \in PathParts
  /\ byte = 0
  /\ eset = "none"
  /\ charSigned = FALSE
  /\ encoded = <<>>
  /\ objs = AllDead
  /\ sso = FALSE
  /\ hist = [op |-> "none", it |-> path_iterator_default, yielded |-> <<>>]
  /\ ops = 0

\* auto it = url.path_begin()
PathBegin ==
  /\ hist.op = "none"
  /\ hist' = [hist EXCEPT !.op = "test", !.it = path_begin(input)]
  /\ UNCHANGED <<byte, eset, charSigned, encoded, input, objs, sso, ops>>

\* it != url.path_end() holds; the loop body reads *it
PathDeref ==
  /\ hist.op = "test"
  /\ ~path_iterator_equal(hist.it, path_end, FALSE)
  /\ hist' = [hist EXCEPT !.op = "body",
                          !.yielded = Append(@, ViewText(input, hist.it.element_))]
  /\ UNCHANGED <<byte, eset, charSigned, encoded, input, objs, sso, ops>>

\* ++it
PathIncrement ==
  /\ hist.op = "body"
  /\ hist' = [hist EXCEPT !.op = "test", !.it = path_increment(input, hist.it)]
  /\ ops' = ops + 1
  /\ UNCHANGED <<byte, eset, charSigned, encoded, input, objs, sso>>

PathNext == PathBegin \/ PathDeref \/ PathIncrement

\* the loop runs on while it can: a step that is possible is taken
PathSpec == PathInit /\ [][PathNext]_vars /\ WF_vars(PathNext)

\* the segments of a path that begins with '/': one per '/', the text that follows it
\* up to the next '/'
RECURSIVE Segments(_)
Segments(p) ==
  IF p = <<>> THEN <<>>
  ELSE <<Before(Tail(p), {47})>>
         \o Segments(SubSeq(p, Len(Before(Tail(p), {47})) + 2, Len(p)))

\* the iterator has reached path_end()
PathAtEnd == hist.op = "test" /\ path_iterator_equal(hist.it, path_end, FALSE)

\* C24: iterating a path that begins with '/' from path_begin() reaches path_end() and
\* has then yielded, in order, exactly the segments of the path, one per '/': "/a/b"
\* yields "a", "b"; "/" yields one empty segment; "/a/" yields "a" and an empty segment.
C24_PathSegments ==
  /\ [](PathAtEnd => hist.yielded = Segments(input))
  /\ <>PathAtEnd

-----------------------------------------------------------------------------
(* Two iterators over one url.  hist.x and hist.y are two iterator objects   *)
(* of the kind hist.kind, over the path or the query held in input.          *)

IteratorKinds == {"path", "query"}

\* what is left to read: path_ of a path iterator, query_ of a query iterator
Remaining(kind, it) == IF kind = "path" THEN it.path_ ELSE it.query_

IterDefault(kind) == IF kind = "path" THEN path_iterator_default ELSE query_iterator_default

IterBeginOf(kind, s) == IF kind = "path" THEN path_begin(s) ELSE query_begin(s)

IterIncrementOf(kind, s, it) ==
  IF kind = "path" THEN path_increment(s, it) ELSE increment(s, it)

\* a == b for two iterator objects, or for one object compared with itself
IterEqual(kind, a, b, sameObject) ==
  IF kind = "path" THEN path_iterator_equal(a, b, sameObject)
  ELSE query_iterator_equal(a, b, sameObject)

IterInit ==
  /\ \E kind \in IteratorKinds :
       /\ input \in (IF kind = "path" THEN PathParts ELSE QueryParts)
       /\ hist = [op |-> "none", kind |-> kind,
                  x |-> IterDefault(kind), y |-> IterDefault(kind)]
  /\ byte = 0
  /\ eset = "none"
  /\ charSigned = FALSE
  /\ encoded = <<>>
  /\ objs = AllDead
  /\ sso = FALSE
  /\ ops = 0

\* auto x = url.begin(), y = url.begin()
IterBegin ==
  /\ hist.op = "none"
  /\ hist' = [hist EXCEPT !.op = "begin",
                          !.x = IterBeginOf(hist.kind, input),
                          !.y = IterBeginOf(hist.kind, input)]
  /\ UNCHANGED <<byte, eset, charSigned, encoded, input, objs, sso, ops>>

\* y = x: the defaulted copy assignment copies both members
IterCopy ==
  /\ hist.op # "none"
  /\ hist.y # hist.x
  /\ hist' = [hist EXCEPT !.op = "copy", !.y = hist.x]
  /\ UNCHANGED <<byte, eset, charSigned, encoded, input, objs, sso, ops>>

\* ++x, for an x that is not at the end
IterIncrementX ==
  /\ hist.op # "none"
  /\ Remaining(hist.kind, hist.x).has
  /\ hist' = [hist EXCEPT !.op = "increment",
                          !.x = IterIncrementOf(hist.kind, input, hist.x)]
  /\ UNCHANGED <<byte, eset, charSigned, encoded, input, objs, sso, ops>>

\* ++y, for a y that is not at the end
IterIncrementY ==
  /\ hist.op # "none"
  /\ Remaining(hist.kind, hist.y).has
  /\ hist' = [hist EXCEPT !.op = "increment",
                          !.y = IterIncrementOf(hist.kind, input, hist.y)]
  /\ UNCHANGED <<byte, eset, charSigned, encoded, input, objs, sso, ops>>

IterNext == IterBegin \/ IterCopy \/ IterIncrementX \/ IterIncrementY

IterSpec == IterInit /\ [][IterNext]_vars

\* both iterators are at the end, or both refer to the same element of the string
SamePosition(kind, a, b) ==
  \/ (~Remaining(kind, a).has /\ ~Remaining(kind, b).has)
  \/ (Remaining(kind, a).has /\ Remaining(kind, b).has
        /\ Remaining(kind, a) = Remaining(kind, b))

\* C25: two iterators over the same url compare equal exactly when both are at the end
\* or both refer to the same element of the underlying string: a copy of a non-end
\* iterator equals the iterator it was copied from, iterators at different positions
\* are unequal.
C25_IteratorEquality ==
  hist.op # "none" =>
    (IterEqual(hist.kind, hist.x, hist.y, FALSE) = SamePosition(hist.kind, hist.x, hist.y))

-----------------------------------------------------------------------------
(* The parser state machine.  Its body is outside the files at hand; the     *)
(* states are those of url_state and the transitions those of section 4.3 of *)
(* the written specification, which names the basic URL parser of the WHATWG *)
(* URL standard.  The machine is the record held in hist: the state, the     *)
(* pointer (an offset into input, Len(input) standing for EOF), the buffer,  *)
(* the two flags, the scheme found, the base, and the number of runs of the  *)
(* state machine so far; from and fromState are the pointer and the state at *)
(* the start of the last run.                                                *)

\* enum class url_state, without null
url_state ==
  { "scheme_start", "scheme", "no_scheme", "special_relative_or_authority",
    "path_or_authority", "relative", "relative_slash", "special_authority_slashes",
    "special_authority_ignore_slashes", "authority", "host", "hostname", "port", "file",
    "file_slash", "file_host", "path_start", "path", "cannot_be_a_base_url_path",
    "query", "fragment" }

\* the end of the input: a value that is no byte
EOF == Cardinality(Bytes)

\* the current byte, and the byte after it
CurrentByte(m) == IF m.pointer >= 0 /\ m.pointer < Len(input) THEN input[m.pointer + 1] ELSE EOF
NextByte(m) == IF m.pointer + 1 < Len(input) THEN input[m.pointer + 2] ELSE EOF

IsSpecial(m) == m.scheme \in SpecialSchemes

\* '/', '?', '#', EOF, and '\' for a special scheme
EndsAuthority(m, c) == c \in {EOF, 47, 63, 35} \/ (IsSpecial(m) /\ c = 92)

GoTo(m, st) == [m EXCEPT !.state = st]
Reconsume(m, st) == [m EXCEPT !.state = st, !.pointer = @ - 1]
SkipByte(m, st) == [m EXCEPT !.state = st, !.pointer = @ + 1]
Failure(m) == [m EXCEPT !.op = "failure"]
Returned(m) == [m EXCEPT !.op = "commit"]
Buffered(m, c) == [m EXCEPT !.buffer = Append(@, c)]

\* the host parser: fails on a forbidden host byte
HostParses(buffer) == \A i \in 1..Len(buffer) : buffer[i] \notin ForbiddenHostBytes \ {58}

\* two bytes, an ASCII alpha and ':' or '|'
IsWindowsDriveLetter(buffer) ==
  Len(buffer) = 2 /\ IsAlpha(buffer[1]) /\ buffer[2] \in {58, 124}

\* after a run of the state machine: the parse is over when the pointer is at EOF,
\* otherwise the pointer is increased by one
AfterRun(m) ==
  IF m.op # "run" THEN m
  ELSE IF m.pointer >= Len(input) THEN [m EXCEPT !.op = "commit"]
  ELSE [m EXCEPT !.pointer = @ + 1]

\* one run of the state machine in state st, leaving the machine m
Run(st, m) ==
  /\ hist.op = "run"
  /\ hist.state = st
  /\ hist' = AfterRun([m EXCEPT !.steps = @ + 1, !.from = hist.pointer,
                                !.fromState = hist.state])
  /\ UNCHANGED <<byte, eset, charSigned, encoded, input, objs, sso, ops>>

SchemeStart ==
  Run("scheme_start",
      IF IsAlpha(CurrentByte(hist))
      THEN GoTo(Buffered(hist, ToLower(CurrentByte(hist))), "scheme")
      ELSE Reconsume(hist, "no_scheme"))

\* the state that follows the ':' of the scheme held in the buffer
AfterSchemeColon(m) ==
  IF m.scheme = FileScheme THEN GoTo(m, "file")
  ELSE IF IsSpecial(m) /\ m.base.present /\ m.base.scheme = m.scheme
  THEN GoTo(m, "special_relative_or_authority")
  ELSE IF IsSpecial(m) THEN GoTo(m, "special_authority_slashes")
  ELSE IF NextByte(m) = 47 THEN SkipByte(m, "path_or_authority")
  ELSE GoTo(m, "cannot_be_a_base_url_path")

\* a byte that is no scheme byte and no ':': the buffer is dropped and the input is
\* read again from its first byte in the state no_scheme
StartOver(m) ==
  [m EXCEPT !.buffer = <<>>, !.state = "no_scheme", !.pointer = -1, !.restarts = @ + 1]

Scheme ==
  Run("scheme",
      IF CurrentByte(hist) # EOF /\ IsSchemeChar(CurrentByte(hist))
      THEN Buffered(hist, ToLower(CurrentByte(hist)))
      ELSE IF CurrentByte(hist) = 58
      THEN AfterSchemeColon([hist EXCEPT !.scheme = hist.buffer, !.buffer = <<>>])
      ELSE StartOver(hist))

NoScheme ==
  Run("no_scheme",
      IF ~hist.base.present \/ (hist.base.opaque /\ CurrentByte(hist) # 35)
      THEN Failure(hist)
      ELSE IF hist.base.opaque THEN GoTo([hist EXCEPT !.scheme = hist.base.scheme], "fragment")
      ELSE IF hist.base.scheme # FileScheme THEN Reconsume(hist, "relative")
      ELSE Reconsume(hist, "file"))

SpecialRelativeOrAuthority ==
  Run("special_relative_or_authority",
      IF CurrentByte(hist) = 47 /\ NextByte(hist) = 47
      THEN SkipByte(hist, "special_authority_ignore_slashes")
      ELSE Reconsume(hist, "relative"))

PathOrAuthority ==
  Run("path_or_authority",
      IF CurrentByte(hist) = 47 THEN GoTo(hist, "authority") ELSE Reconsume(hist, "path"))

\* the state that follows the current byte c in the state relative
RelativeOn(m, c) ==
  IF c = EOF THEN m
  ELSE IF c = 47 THEN GoTo(m, "relative_slash")
  ELSE IF c = 63 THEN GoTo(m, "query")
  ELSE IF c = 35 THEN GoTo(m, "fragment")
  ELSE IF IsSpecial(m) /\ c = 92 THEN GoTo(m, "relative_slash")
  ELSE Reconsume(m, "path")

Relative ==
  Run("relative", RelativeOn([hist EXCEPT !.scheme = hist.base.scheme], CurrentByte(hist)))

RelativeSlash ==
  Run("relative_slash",
      IF IsSpecial(hist) /\ CurrentByte(hist) \in {47, 92}
      THEN GoTo(hist, "special_authority_ignore_slashes")
      ELSE IF CurrentByte(hist) = 47 THEN GoTo(hist, "authority")
      ELSE Reconsume(hist, "path"))

SpecialAuthoritySlashes ==
  Run("special_authority_slashes",
      IF CurrentByte(hist) = 47 /\ NextByte(hist) = 47
      THEN SkipByte(hist, "special_authority_ignore_slashes")
      ELSE Reconsume(hist, "special_authority_ignore_slashes"))

SpecialAuthorityIgnoreSlashes ==
  Run("special_authority_ignore_slashes",
      IF CurrentByte(hist) \notin {47, 92} THEN Reconsume(hist, "authority") ELSE hist)

\* the pointer goes back and the authority is buffered once more
RewindToHost_stays(m) ==
  [m EXCEPT !.pointer = @ - (Len(m.buffer) + 1), !.buffer = <<>>]

\* the end of the authority: the pointer goes back to the first byte of the buffer and
\* the buffered bytes are read again in the state host
RewindToHost(m) ==
  [m EXCEPT !.pointer = @ - (Len(m.buffer) + 1), !.buffer = <<>>, !.state = "host",
            !.rewinds = @ + 1]

Authority ==
  Run("authority",
      IF CurrentByte(hist) = 64
      THEN [hist EXCEPT !.atFlag = TRUE, !.buffer = <<>>]
      ELSE IF EndsAuthority(hist, CurrentByte(hist))
      THEN (IF hist.atFlag /\ hist.buffer = <<>> THEN Failure(hist) ELSE RewindToHost(hist))
      ELSE Buffered(hist, CurrentByte(hist)))

\* the states host and hostname share one handler; when the hostname is being set the
\* parser returns as soon as the host is parsed
HostRun(m) ==
  IF CurrentByte(m) = 58 /\ ~m.bracket
  THEN (IF m.buffer = <<>> THEN Failure(m)
        ELSE IF m.override THEN Returned(m)
        ELSE IF ~HostParses(m.buffer) THEN Failure(m)
        ELSE GoTo([m EXCEPT !.buffer = <<>>], "port"))
  ELSE IF EndsAuthority(m, CurrentByte(m))
  THEN (IF (IsSpecial(m) /\ m.buffer = <<>>) \/ ~HostParses(m.buffer) THEN Failure(m)
        ELSE IF m.override THEN Returned(Reconsume([m EXCEPT !.buffer = <<>>], "path_start"))
        ELSE Reconsume([m EXCEPT !.buffer = <<>>], "path_start"))
  ELSE Buffered([m EXCEPT !.bracket = IF CurrentByte(m) = 91 THEN TRUE
                                       ELSE IF CurrentByte(m) = 93 THEN FALSE ELSE @],
                CurrentByte(m))

Host == Run("host", HostRun(hist))

Hostname == Run("hostname", HostRun(hist))

Port ==
  Run("port",
      IF CurrentByte(hist) # EOF /\ IsDigit(CurrentByte(hist))
      THEN Buffered(hist, CurrentByte(hist))
      ELSE IF EndsAuthority(hist, CurrentByte(hist))
      THEN (IF PortValue(hist.buffer, 0) > 65535 THEN Failure(hist)
            ELSE Reconsume([hist EXCEPT !.buffer = <<>>], "path_start"))
      ELSE Failure(hist))

\* the state that follows the current byte c in the state file
FileOn(m, c) ==
  IF c \in {47, 92} THEN GoTo(m, "file_slash")
  ELSE IF m.base.present /\ m.base.scheme = FileScheme
  THEN (IF c = EOF THEN m
        ELSE IF c = 63 THEN GoTo(m, "query")
        ELSE IF c = 35 THEN GoTo(m, "fragment")
        ELSE Reconsume(m, "path"))
  ELSE Reconsume(m, "path")

File == Run("file", FileOn([hist EXCEPT !.scheme = FileScheme], CurrentByte(hist)))

FileSlash ==
  Run("file_slash",
      IF CurrentByte(hist) \in {47, 92} THEN GoTo(hist, "file_host")
      ELSE Reconsume(hist, "path"))

FileHost ==
  Run("file_host",
      IF CurrentByte(hist) \in {EOF, 47, 92, 63, 35}
      THEN (IF IsWindowsDriveLetter(hist.buffer) THEN Reconsume(hist, "path")
            ELSE IF hist.buffer = <<>> THEN Reconsume(hist, "path_start")
            ELSE IF ~HostParses(hist.buffer) THEN Failure(hist)
            ELSE Reconsume([hist EXCEPT !.buffer = <<>>], "path_start"))
      ELSE Buffered(hist, CurrentByte(hist)))

PathStart ==
  Run("path_start",
      IF IsSpecial(hist)
      THEN (IF CurrentByte(hist) \in {47, 92} THEN GoTo(hist, "path")
            ELSE Reconsume(hist, "path"))
      ELSE IF CurrentByte(hist) = 63 THEN GoTo(hist, "query")
      ELSE IF CurrentByte(hist) = 35 THEN GoTo(hist, "fragment")
      ELSE IF CurrentByte(hist) = EOF THEN hist
      ELSE IF CurrentByte(hist) = 47 THEN GoTo(hist, "path")
      ELSE Reconsume(hist, "path"))

\* the bytes of a segment go to the path; the buffer is empty when a segment ends
Path ==
  Run("path",
      IF CurrentByte(hist) = 63 THEN GoTo([hist EXCEPT !.buffer = <<>>], "query")
      ELSE IF CurrentByte(hist) = 35 THEN GoTo([hist EXCEPT !.buffer = <<>>], "fragment")
      ELSE [hist EXCEPT !.buffer = <<>>])

CannotBeABaseUrlPath ==
  Run("cannot_be_a_base_url_path",
      IF CurrentByte(hist) = 63 THEN GoTo(hist, "query")
      ELSE IF CurrentByte(hist) = 35 THEN GoTo(hist, "fragment")
      ELSE hist)

Query ==
  Run("query", IF CurrentByte(hist) = 35 THEN GoTo(hist, "fragment") ELSE hist)

Fragment == Run("fragment", hist)

MaxTailLen == 3

\* a : / \ @ ? # 1
TailAlphabet == {97, 58, 47, 92, 64, 63, 35, 49}

RECURSIVE Tails(_)
Tails(n) ==
  IF n = 0 THEN {<<>>}
  ELSE Tails(n - 1) \cup
       {Append(s, c) : s \in {t \in Tails(n - 1) : Len(t) = n - 1}, c \in TailAlphabet}

\* nothing, "a:", "ws:", "file:" and "ws://[" before the tail
SchemePrefixes ==
  { <<>>, <<97, 58>>, <<119, 115, 58>>, <<102, 105, 108, 101, 58>>,
    <<119, 115, 58, 47, 47, 91>> }

MachineInputs == {p \o t : p \in SchemePrefixes, t \in Tails(MaxTailLen)}

NoBase == [present |-> FALSE, scheme |-> <<>>, opaque |-> FALSE]

\* no base, and bases ws://h/, file:///x and a:x
MachineBases ==
  { NoBase,
    [present |-> TRUE, scheme |-> <<119, 115>>, opaque |-> FALSE],
    [present |-> TRUE, scheme |-> FileScheme, opaque |-> FALSE],
    [present |-> TRUE, scheme |-> <<97>>, opaque |-> TRUE] }

\* the machine entered in state st for a url of scheme sc, with the pointer on the first
\* byte
Entered(st, sc, b, override) ==
  [op |-> "run", state |-> st, pointer |-> 0, buffer |-> <<>>, atFlag |-> FALSE,
   bracket |-> FALSE, scheme |-> sc, base |-> b, override |-> override, steps |-> 0,
   from |-> 0, fromState |-> st, restarts |-> 0, rewinds |-> 0]

\* parse(input, base) is entered in the state scheme_start; parse(input, url, hostname),
\* which sets the hostname of a url of scheme a or ws, in the state hostname
MachineInit ==
  /\ input \in MachineInputs
  /\ \/ \E b \in MachineBases : hist = Entered("scheme_start", <<>>, b, FALSE)
     \/ \E sc \in {<<97>>, <<119, 115>>} : hist = Entered("hostname", sc, NoBase, TRUE)
  /\ byte = 0
  /\ eset = "none"
  /\ charSigned = FALSE
  /\ encoded = <<>>
  /\ objs = AllDead
  /\ sso = FALSE
  /\ ops = 0

MachineNext ==
  \/ SchemeStart \/ Scheme \/ NoScheme \/ SpecialRelativeOrAuthority \/ PathOrAuthority
  \/ Relative \/ RelativeSlash \/ SpecialAuthoritySlashes \/ SpecialAuthorityIgnoreSlashes
  \/ Authority \/ Host \/ Hostname \/ Port \/ File \/ FileSlash \/ FileHost
  \/ PathStart \/ Path \/ CannotBeABaseUrlPath \/ Query \/ Fragment

MachineSpec == MachineInit /\ [][MachineNext]_vars

-----------------------------------------------------------------------------
(* What the state machine does in one run, and how many runs it takes *)

\* how far the last run moved the pointer
LastMove == hist.pointer - hist.from

\* the last run went on to read the next byte, or changed state on the same byte
AdvancedOrReconsumed ==
  \/ LastMove = 1
  \/ (LastMove = 0 /\ hist.state # hist.fromState)

\* the last run went back: the scheme given up and the input read again from its first
\* byte, or the buffered authority read again as host and port
WentBack ==
  \/ (hist.fromState = "scheme" /\ hist.state = "no_scheme" /\ hist.pointer = 0)
  \/ (hist.fromState = "authority" /\ hist.state = "host")

\* the last run passed over the '/' that follows the current byte
SkippedSlash ==
  /\ LastMove = 2
  /\ hist.from + 1 < Len(input) /\ input[hist.from + 2] = 47
  /\ hist.fromState \in {"scheme", "special_relative_or_authority", "special_authority_slashes"}

=============================================================================
